---- MODULE Spec2Model ----
(***************************************************************************)
(* The cached fetch protocol of the portal generator (generator/lib):      *)
(* the cache store of utils.py, fetch_json_with_cache, and the four        *)
(* adapters that build.main calls (fetch_links, fetch_weather,             *)
(* fetch_status, fetch_now).                                               *)
(*                                                                         *)
(* A behaviour of Spec follows the cache files of one adapter over         *)
(* successive builds: the adapters keep their state in disjoint files of   *)
(* the cache directory, and the configuration is read from config.yaml.    *)
(***************************************************************************)
EXTENDS Integers, Sequences, FiniteSets, TLC

VARIABLES
    adapter,    \* the adapter whose cache files this behaviour follows
    config,     \* config.yaml / feeds.yaml as loaded by build.main
    clock,      \* time.time(), in seconds
    cache,      \* the files of the cache directory
    last,       \* the record of the most recent call (its inputs and its result)
    lastGood    \* per cache file: the payload of the most recent successful fetch

vars == <<adapter, config, clock, cache, last, lastGood>>

-----------------------------------------------------------------------------
(* Bounds of the model and constants of the program.                       *)

MaxTick == 1
MaxFeedItems == 1

MinuteSec == 60
Limit == 120

\* The instants at which a build may run: a few seconds around 0 and around
\* one minute, so that ages of 0..MaxTick seconds and of about one minute occur.
Instants == (0 .. MaxTick) \cup { MinuteSec + k : k \in 0 .. MaxTick }

-----------------------------------------------------------------------------
(* Python values.                                                          *)

\* Python's None, which is also what json.load returns for the document null.
None == [shape |-> "none"]

\* A Python number.
Number(n) == [shape |-> "number", n |-> n]

\* The result of a call: a value, or the exception it raised.
Return(v) == [raised |-> "", value |-> v]
Raise(e) == [raised |-> e, value |-> None]

\* The exception classes that derive from Exception (what line 76 catches).
ExceptionSubclasses ==
    { "ConnectionError", "Timeout", "HTTPError", "ValueError", "RuntimeError",
      "OSError", "AttributeError", "TypeError", "UnicodeDecodeError" }

\* The failures of one HTTP fetch: requests.get raising (connection, timeout),
\* raise_for_status (non-2xx), response.json (parse error).
FetchFailures == { "ConnectionError", "Timeout", "HTTPError", "ValueError" }

-----------------------------------------------------------------------------
(* Python values, continued: str as a sequence of characters, and the      *)
(* values of a parsed JSON document (each carries its type in "shape"; a   *)
(* dict is a record of its keys).                                          *)

Text(chars) == [shape |-> "str", s |-> chars]
List(items) == [shape |-> "list", l |-> items]
Bool(b) == [shape |-> "bool", b |-> b]
EmptyDict == [shape |-> "dict"]

\* bool(v)
Truthy(v) ==
    CASE v.shape = "none" -> FALSE
      [] v.shape = "str" -> v.s # <<>>
      [] v.shape = "list" -> v.l # <<>>
      [] v.shape = "bool" -> v.b
      [] v.shape = "number" -> v.n # 0
      [] OTHER -> DOMAIN v # {"shape"}

\* a or b
Or(a, b) == IF Truthy(a) THEN a ELSE b

\* record.get(key)
Get(record, key) == IF key \in DOMAIN record THEN record[key] ELSE None

\* str(v), for the values the model passes to it.
Str(v) ==
    CASE v.shape = "str" -> v.s
      [] v.shape = "none" -> <<"N", "o", "n", "e">>
      [] OTHER -> <<"?">>

Whitespace == { " ", "newline" }

RECURSIVE LStrip(_)
LStrip(s) == IF s # <<>> /\ Head(s) \in Whitespace THEN LStrip(Tail(s)) ELSE s

RECURSIVE RStrip(_)
RStrip(s) ==
    IF s # <<>> /\ s[Len(s)] \in Whitespace THEN RStrip(SubSeq(s, 1, Len(s) - 1)) ELSE s

\* str.strip()
Strip(s) == RStrip(LStrip(s))

\* str.rstrip("/")
RECURSIVE RStripSlash(_)
RStripSlash(s) ==
    IF s # <<>> /\ s[Len(s)] = "/" THEN RStripSlash(SubSeq(s, 1, Len(s) - 1)) ELSE s

UpperCase ==
    << "A", "B", "C", "D", "E", "F", "G", "H", "I", "J", "K", "L", "M",
       "N", "O", "P", "Q", "R", "S", "T", "U", "V", "W", "X", "Y", "Z" >>
LowerCase ==
    << "a", "b", "c", "d", "e", "f", "g", "h", "i", "j", "k", "l", "m",
       "n", "o", "p", "q", "r", "s", "t", "u", "v", "w", "x", "y", "z" >>

LowerChar(c) ==
    IF \E i \in 1 .. Len(UpperCase) : UpperCase[i] = c
    THEN LowerCase[CHOOSE i \in 1 .. Len(UpperCase) : UpperCase[i] = c]
    ELSE c

\* str.lower()
Lower(s) == [i \in 1 .. Len(s) |-> LowerChar(s[i])]

StartsWith(s, prefix) == Len(s) >= Len(prefix) /\ SubSeq(s, 1, Len(prefix)) = prefix

\* s.find(sub, i): the first index from i on at which sub occurs in s, 0 when none.
RECURSIVE Find(_, _, _)
Find(s, sub, i) ==
    IF i + Len(sub) - 1 > Len(s) THEN 0
    ELSE IF SubSeq(s, i, i + Len(sub) - 1) = sub THEN i
    ELSE Find(s, sub, i + 1)

-----
(* utils.py: the cache store.                                              *)

\* A path of the cache directory: no file, or a file with a body and an mtime.
\* kind "json": a complete JSON document; "garbled": text that is not JSON
\* (an empty or cut-off file included); "binary": bytes that are not UTF-8.
Absent == [exists |-> FALSE, kind |-> "none", doc |-> None, mtime |-> 0]
File(doc, t) == [exists |-> TRUE, kind |-> "json", doc |-> doc, mtime |-> t]

read_json(f, default) ==
    IF ~f.exists THEN Return(default)                    \* FileNotFoundError
    ELSE IF f.kind = "binary" THEN Raise("UnicodeDecodeError")
    ELSE IF f.kind = "garbled" THEN Return(default)      \* json.JSONDecodeError
    ELSE Return(f.doc)

write_json(payload, now) == File(payload, now)

\* is_cache_fresh with "age < ttl_seconds" on line 58.
is_cache_fresh_exclusive(f, ttl_seconds, now) ==
    IF ttl_seconds <= 0 \/ ~f.exists
    THEN FALSE
    ELSE now - f.mtime < ttl_seconds

\* is_cache_fresh without the "ttl_seconds <= 0" test of line 55.
is_cache_fresh_any_ttl(f, ttl_seconds, now) ==
    IF ~f.exists
    THEN FALSE
    ELSE now - f.mtime <= ttl_seconds

is_cache_fresh(f, ttl_seconds, now) ==
    IF ttl_seconds <= 0 \/ ~f.exists
    THEN FALSE
    ELSE now - f.mtime <= ttl_seconds

\* "except requests.RequestException" on line 76.
Caught_requests_only(e) == e \in { "ConnectionError", "Timeout", "HTTPError" }

\* except Exception (line 76)
Caught(e) == e \in ExceptionSubclasses

\* A fallback argument: a callable returning a value, or the value itself.
Callable(v) == [callable |-> TRUE, value |-> v]
Plain(v) == [callable |-> FALSE, value |-> v]

\* fetch_json_with_cache(cache_path, ttl_seconds, fetcher, fallback) at time now.
\* f is the file at cache_path; fetched is what fetcher() does if it is called.
\* The result: what is raised or returned (value, source), the file afterwards,
\* and how often fetcher and a callable fallback were called.
Resolved(raised, value, source, file, fetches, fallbacks) ==
    [raised |-> raised, value |-> value, source |-> source, file |-> file,
     fetches |-> fetches, fallbacks |-> fallbacks]

\* fetch_json_with_cache without the write_json of line 74.
fetch_json_with_cache_unsaved(f, ttl_seconds, fetched, fallback, now) ==
    LET rd == read_json(f, None)
        cached == rd.value
    IN  IF rd.raised # "" THEN Resolved(rd.raised, None, "", f, 0, 0)
        ELSE IF cached # None /\ is_cache_fresh(f, ttl_seconds, now)
        THEN Resolved("", cached, "cache", f, 0, 0)
        ELSE IF fetched.raised = ""
        THEN Resolved("", fetched.value, "live", f, 1, 0)
        ELSE IF ~Caught(fetched.raised)
        THEN Resolved(fetched.raised, None, "", f, 1, 0)
        ELSE IF cached # None
        THEN Resolved("", cached, "stale", f, 1, 0)
        ELSE IF fallback.callable
        THEN Resolved("", fallback.value, "fallback", f, 1, 1)
        ELSE Resolved("", fallback.value, "fallback", f, 1, 0)

\* fetch_json_with_cache with the except block trying a callable fallback
\* before the cached payload.
fetch_json_with_cache_fallback_first(f, ttl_seconds, fetched, fallback, now) ==
    LET rd == read_json(f, None)
        cached == rd.value
    IN  IF rd.raised # "" THEN Resolved(rd.raised, None, "", f, 0, 0)
        ELSE IF cached # None /\ is_cache_fresh(f, ttl_seconds, now)
        THEN Resolved("", cached, "cache", f, 0, 0)
        ELSE IF fetched.raised = ""
        THEN Resolved("", fetched.value, "live", write_json(fetched.value, now), 1, 0)
        ELSE IF ~Caught(fetched.raised)
        THEN Resolved(fetched.raised, None, "", f, 1, 0)
        ELSE IF fallback.callable
        THEN Resolved("", fallback.value, "fallback", f, 1, 1)
        ELSE IF cached # None
        THEN Resolved("", cached, "stale", f, 1, 0)
        ELSE Resolved("", fallback.value, "fallback", f, 1, 0)

\* fetch_json_with_cache writing the fallback it returns to the cache file.
fetch_json_with_cache_saves_fallback(f, ttl_seconds, fetched, fallback, now) ==
    LET rd == read_json(f, None)
        cached == rd.value
    IN  IF rd.raised # "" THEN Resolved(rd.raised, None, "", f, 0, 0)
        ELSE IF cached # None /\ is_cache_fresh(f, ttl_seconds, now)
        THEN Resolved("", cached, "cache", f, 0, 0)
        ELSE IF fetched.raised = ""
        THEN Resolved("", fetched.value, "live", write_json(fetched.value, now), 1, 0)
        ELSE IF ~Caught(fetched.raised)
        THEN Resolved(fetched.raised, None, "", f, 1, 0)
        ELSE IF cached # None
        THEN Resolved("", cached, "stale", f, 1, 0)
        ELSE IF fallback.callable
        THEN Resolved("", fallback.value, "fallback", write_json(fallback.value, now), 1, 1)
        ELSE Resolved("", fallback.value, "fallback", write_json(fallback.value, now), 1, 0)

\* fetch_json_with_cache unlinking a cache file it found expired before it
\* fetches.
fetch_json_with_cache_drops_expired(f, ttl_seconds, fetched, fallback, now) ==
    LET rd == read_json(f, None)
        cached == rd.value
    IN  IF rd.raised # "" THEN Resolved(rd.raised, None, "", f, 0, 0)
        ELSE IF cached # None /\ is_cache_fresh(f, ttl_seconds, now)
        THEN Resolved("", cached, "cache", f, 0, 0)
        ELSE IF fetched.raised = ""
        THEN Resolved("", fetched.value, "live", write_json(fetched.value, now), 1, 0)
        ELSE IF ~Caught(fetched.raised)
        THEN Resolved(fetched.raised, None, "", Absent, 1, 0)
        ELSE IF cached # None
        THEN Resolved("", cached, "stale", Absent, 1, 0)
        ELSE IF fallback.callable
        THEN Resolved("", fallback.value, "fallback", Absent, 1, 1)
        ELSE Resolved("", fallback.value, "fallback", Absent, 1, 0)

fetch_json_with_cache(f, ttl_seconds, fetched, fallback, now) ==
    LET rd == read_json(f, None)
        cached == rd.value
    IN  IF rd.raised # "" THEN Resolved(rd.raised, None, "", f, 0, 0)
        ELSE IF cached # None /\ is_cache_fresh(f, ttl_seconds, now)
        THEN Resolved("", cached, "cache", f, 0, 0)
        ELSE IF fetched.raised = ""
        THEN Resolved("", fetched.value, "live", write_json(fetched.value, now), 1, 0)
        ELSE IF ~Caught(fetched.raised)
        THEN Resolved(fetched.raised, None, "", f, 1, 0)
        ELSE IF cached # None
        THEN Resolved("", cached, "stale", f, 1, 0)
        ELSE IF fallback.callable
        THEN Resolved("", fallback.value, "fallback", f, 1, 1)
        ELSE Resolved("", fallback.value, "fallback", f, 1, 0)

\* The names utils.py defines.
UtilsAttributes ==
    { "ensure_dir", "read_text", "read_json", "write_json", "load_yaml",
      "load_lines", "is_cache_fresh", "fetch_json_with_cache", "to_datetime",
      "format_datetime", "slugify", "excerpt_from_markdown", "clean_output_dir",
      "copy_static_tree", "format_uptime", "pick_tiny_thing" }

-----------------------------------------------------------------------------
(* Sequences.                                                              *)

Take(s, n) == IF Len(s) <= n THEN s ELSE SubSeq(s, 1, n)

RECURSIVE Concat(_)
Concat(ss) == IF ss = <<>> THEN <<>> ELSE Head(ss) \o Concat(Tail(ss))

\* list.sort(key = published, reverse = True): descending and stable.
RECURSIVE InsertDesc(_, _)
InsertDesc(x, s) ==
    IF s = <<>> THEN <<x>>
    ELSE IF Head(s).published >= x.published THEN <<Head(s)>> \o InsertDesc(x, Tail(s))
    ELSE <<x>> \o s

RECURSIVE SortDesc(_)
SortDesc(s) ==
    IF s = <<>> THEN <<>>
    ELSE InsertDesc(s[Len(s)], SortDesc(SubSeq(s, 1, Len(s) - 1)))

-----------------------------------------------------------------------------
(* The record of a call.                                                   *)

\* One resolution made during an adapter call: its inputs (the file before,
\* the TTL, what the fetcher does, the fallback) and its result.
Resolution(path, f, ttl_seconds, fetched, fallback, res) ==
    [path |-> path, pre |-> f, ttl_seconds |-> ttl_seconds, fetched |-> fetched,
     fallback |-> fallback, raised |-> res.raised, value |-> res.value,
     source |-> res.source, post |-> res.file, fetches |-> res.fetches,
     fallbacks |-> res.fallbacks]

\* No call: the state between two builds.
Idle ==
    [op |-> "idle", at |-> 0, raised |-> "", value |-> None, source |-> "",
     calls |-> <<>>, history |-> <<>>, log |-> <<>>, probed |-> FALSE]

\* The record of an adapter call: what it raised or returned to build.main
\* (value, source) and the resolutions it made.
Called(op, out, source, calls) ==
    [op |-> op, at |-> clock, raised |-> out.raised, value |-> out.value,
     source |-> source, calls |-> calls, history |-> <<>>, log |-> <<>>,
     probed |-> FALSE]

\* lastGood after a resolution of path: the fetched payload when the fetcher
\* was called and returned one.
Remember(good, path, res, fetched) ==
    IF res.fetches = 1 /\ fetched.raised = ""
    THEN [good EXCEPT ![path] = fetched.value]
    ELSE good

-----------------------------------------------------------------------------
(* feeds.py                                                                *)

\* What one feed URL answers: a failure of _fetch_feed, or its linked entries
\* (their published times).
PublishedTimes == { 1, 2 }
FeedAnswers ==
    [raised : { "Timeout" }, entries : {<<>>}]
      \cup [raised : {""}, entries : UNION { [1 .. n -> PublishedTimes] : n \in 0 .. MaxFeedItems }]

\* _fetch_feed(name, url): the items of one feed.
_fetch_feed(name, answer) ==
    IF answer.raised # "" THEN Raise(answer.raised)
    ELSE Return([i \in 1 .. Len(answer.entries) |->
                    [source |-> name, published |-> answer.entries[i]]])

\* fetch_links.fetcher: the union of the feeds that answered, newest first.
LinksFetcher(feed_list, answers, now) ==
    LET per == [i \in 1 .. Len(feed_list) |->
                    LET r == _fetch_feed(feed_list[i], answers[i])
                    IN  IF r.raised # "" THEN <<>> ELSE r.value]
        all_items == Concat(per)
    IN  IF all_items = <<>> THEN Raise("RuntimeError")
        ELSE Return([shape |-> "dict", updated_at |-> now,
                     items |-> Take(SortDesc(all_items), Limit)])

\* _fallback_items(feed_list): one placeholder per configured feed.
_fallback_items(feed_list, now) ==
    [shape |-> "dict", updated_at |-> now,
     items |-> [i \in 1 .. Len(Take(feed_list, 10)) |->
                    [source |-> feed_list[i], published |-> now]]]

\* Lines 150-163: the items handed to build.main; published_label is
\* utils.format_date(published), evaluated for every item.
LinksItems(payload) ==
    IF payload.shape # "dict" THEN Raise("AttributeError")
    ELSE IF Take(payload.items, Limit) # <<>> /\ "format_date" \notin UtilsAttributes
    THEN Raise("AttributeError")
    ELSE Return(Take(payload.items, Limit))

\* The record of a call with what the feed URLs answered during it.
WithAnswers(called, answers) ==
    [k \in DOMAIN called \cup {"answers"} |->
        IF k = "answers" THEN answers ELSE called[k]]

FetchLinks ==
    /\ adapter = "links"
    /\ \E answers \in [1 .. Len(config.feeds) -> FeedAnswers] :
        LET path == "feeds.json"
            ttl_seconds == config.feeds_ttl_minutes * MinuteSec
            fallback == Callable(_fallback_items(config.feeds, clock))
        IN  \E fetched \in { LinksFetcher(config.feeds, answers, clock) } :
            \E res \in { fetch_json_with_cache(cache[path], ttl_seconds, fetched,
                                               fallback, clock) } :
            \E items \in { IF res.raised # "" THEN Raise(res.raised)
                           ELSE LinksItems(res.value) } :
                /\ cache' = [cache EXCEPT ![path] = res.file]
                /\ lastGood' = Remember(lastGood, path, res, fetched)
                /\ last' = WithAnswers(Called("fetch_links", items, res.source,
                                              << Resolution(path, cache[path], ttl_seconds,
                                                            fetched, fallback, res) >>),
                                       answers)
    /\ UNCHANGED <<adapter, config, clock>>

-----------------------------------------------------------------------------
(* weather.py                                                              *)

\* WEATHER_CODES.get(code, "desconocido"), for the codes the model uses.
WeatherCodes == { 0, 3, 999 }
WeatherDescription(code) ==
    CASE code = 0 -> "despejado"
      [] code = 3 -> "nublado"
      [] OTHER -> "desconocido"

\* What the forecast API answers: a failure, or a current weather code.
WeatherAnswers ==
    [raised : FetchFailures, code : {0}] \cup [raised : {""}, code : WeatherCodes]

_fetch_weather(answer, now) ==
    IF answer.raised # "" THEN Raise(answer.raised)
    ELSE Return([shape |-> "dict", updated_at |-> now,
                 description |-> WeatherDescription(answer.code)])

_fallback_weather(now) ==
    [shape |-> "dict", updated_at |-> now, description |-> "pronostico en cache"]

_icon_for_description(description) ==
    CASE description = "despejado" -> "sun"
      [] description = "nublado" -> "cloud"
      [] OTHER -> "cloud"

\* Lines 131-145: the item handed to build.main.
WeatherItem(payload) ==
    IF payload.shape # "dict" THEN Raise("AttributeError")
    ELSE Return([description |-> payload.description,
                 icon |-> _icon_for_description(payload.description)])

FetchWeather ==
    /\ adapter = "weather"
    /\ \E answer \in WeatherAnswers :
        LET path == "weather.json"
            ttl_seconds == config.weather_ttl_minutes * MinuteSec
            fallback == Callable(_fallback_weather(clock))
        IN  \E fetched \in { _fetch_weather(answer, clock) } :
            \E res \in { fetch_json_with_cache(cache[path], ttl_seconds, fetched,
                                               fallback, clock) } :
            \E item \in { IF res.raised # "" THEN Raise(res.raised)
                          ELSE WeatherItem(res.value) } :
                /\ cache' = [cache EXCEPT ![path] = res.file]
                /\ lastGood' = Remember(lastGood, path, res, fetched)
                /\ last' = Called("fetch_weather", item, res.source,
                                  << Resolution(path, cache[path], ttl_seconds, fetched,
                                                fallback, res) >>)
    /\ UNCHANGED <<adapter, config, clock>>

-----------------------------------------------------------------------------
(* status.py                                                               *)

\* What the SSH probe does: it fails (non-zero exit, timeout, empty or
\* unparsable output), or it prints the remote uptime.
RemoteUptimes == { Number(200), Number(300) }
ProbeAnswers == [ok : {FALSE}, uptime : {None}] \cup [ok : {TRUE}, uptime : RemoteUptimes]

\* _uptime_seconds(): /proc/uptime of the build host, None when unreadable.
LocalUptimes == { None, Number(100) }

Metrics(uptime, stale, source) ==
    [uptime_seconds |-> uptime, metrics_stale |-> stale, metrics_source |-> source]

\* _collect_remote_metrics_via_ssh answering a failed probe with the local
\* metrics without looking at status_remote.json.
_collect_remote_metrics_via_ssh_local_first(settings, remote_file, probe, local_uptime, now) ==
    IF settings.ssh_target # "" /\ probe.ok
    THEN [metrics |-> Metrics(probe.uptime, FALSE, "remote_ssh"),
          file |-> write_json([shape |-> "dict", fetched_at |-> now,
                               uptime_seconds |-> probe.uptime], now),
          probed |-> settings.ssh_target # "", raised |-> ""]
    ELSE [metrics |-> Metrics(local_uptime, TRUE, "local_fallback"),
          file |-> remote_file, probed |-> settings.ssh_target # "", raised |-> ""]

\* _collect_remote_metrics_via_ssh letting the exception of a failed probe
\* out to its caller.
_collect_remote_metrics_via_ssh_raising(settings, remote_file, probe, local_uptime, now) ==
    IF settings.ssh_target # "" /\ probe.ok
    THEN [metrics |-> Metrics(probe.uptime, FALSE, "remote_ssh"),
          file |-> write_json([shape |-> "dict", fetched_at |-> now,
                               uptime_seconds |-> probe.uptime], now),
          probed |-> settings.ssh_target # "", raised |-> ""]
    ELSE [metrics |-> None, file |-> remote_file, probed |-> settings.ssh_target # "",
          raised |-> IF settings.ssh_target = "" THEN "ValueError" ELSE "RuntimeError"]

\* _collect_remote_metrics_via_ssh: the metrics, and status_remote.json afterwards.
_collect_remote_metrics_via_ssh(settings, remote_file, probe, local_uptime, now) ==
    IF settings.ssh_target # "" /\ probe.ok
    THEN [metrics |-> Metrics(probe.uptime, FALSE, "remote_ssh"),
          file |-> write_json([shape |-> "dict", fetched_at |-> now,
                               uptime_seconds |-> probe.uptime], now),
          probed |-> settings.ssh_target # "", raised |-> ""]
    ELSE LET rd == IF settings.allow_fallback_cache
                   THEN read_json(remote_file, None) ELSE Return(None)
         IN  IF rd.raised # ""
             THEN [metrics |-> None, file |-> remote_file,
                   probed |-> settings.ssh_target # "", raised |-> rd.raised]
             ELSE IF rd.value # None /\ rd.value.shape = "dict"
             THEN [metrics |-> Metrics(rd.value.uptime_seconds, TRUE, "remote_cache"),
                   file |-> remote_file, probed |-> settings.ssh_target # "", raised |-> ""]
             ELSE [metrics |-> Metrics(local_uptime, TRUE, "local_fallback"),
                   file |-> remote_file, probed |-> settings.ssh_target # "", raised |-> ""]

_collect_metrics(settings, remote_file, probe, local_uptime, now) ==
    IF settings.metrics_mode # "remote_ssh"
    THEN [metrics |-> Metrics(local_uptime, FALSE, "local"), file |-> remote_file,
          probed |-> FALSE, raised |-> ""]
    ELSE _collect_remote_metrics_via_ssh(settings, remote_file, probe, local_uptime, now)

\* What systemctl is-active does for the configured services: it answers, or
\* subprocess.run raises an OSError other than FileNotFoundError.
ServiceAnswers == { "active", "OSError" }

\* _collect_status: the metrics are collected first, then the services are checked.
_collect_status(settings, remote_file, probe, local_uptime, service, now) ==
    LET m == _collect_metrics(settings, remote_file, probe, local_uptime, now)
    IN  IF m.raised # "" THEN [fetched |-> Raise(m.raised), file |-> m.file, probed |-> m.probed]
        ELSE IF service = "OSError"
        THEN [fetched |-> Raise("OSError"), file |-> m.file, probed |-> m.probed]
        ELSE [fetched |-> Return([shape |-> "dict", generated_at |-> now,
                                  uptime_seconds |-> m.metrics.uptime_seconds,
                                  metrics_stale |-> m.metrics.metrics_stale,
                                  metrics_source |-> m.metrics.metrics_source]),
              file |-> m.file, probed |-> m.probed]

\* What the SSH probe of a call answered (a probe that is not run, for want
\* of remote_ssh mode or of a target, counts as one that failed) and what
\* status_remote.json was before the call.
Probed(cfg, probe, remote_file) ==
    [probe |-> IF cfg.metrics_mode = "remote_ssh" /\ cfg.ssh_target # ""
               THEN probe ELSE [ok |-> FALSE, uptime |-> None],
     remote_pre |-> remote_file]

\* The TTL of status.json without the remote_ssh case of line 253.
StatusTtlSeconds_configured(cfg) == cfg.status_ttl_minutes * MinuteSec

\* Lines 249-253: the TTL fetch_status resolves status.json with.
StatusTtlSeconds(cfg) ==
    IF cfg.metrics_mode = "remote_ssh" THEN 0 ELSE cfg.status_ttl_minutes * MinuteSec

\* The fallback lambda of fetch_status.
_fallback_status(now) ==
    [shape |-> "dict", generated_at |-> now, uptime_seconds |-> None,
     metrics_stale |-> TRUE, metrics_source |-> "fallback"]

\* Lines 271-299: the bundle handed to build.main.
StatusBundle(payload, source) ==
    IF payload.shape # "dict" THEN Raise("AttributeError")
    ELSE Return([source |-> source,
                 metrics_source |-> payload.metrics_source,
                 metrics_stale |-> payload.metrics_stale,
                 metrics_available |-> payload.uptime_seconds # None,
                 uptime_seconds |-> payload.uptime_seconds])

FetchStatus ==
    /\ adapter = "status"
    /\ \E probe \in ProbeAnswers, local_uptime \in LocalUptimes, service \in ServiceAnswers :
        LET path == "status.json"
            remote == "status_remote.json"
            ttl_seconds == StatusTtlSeconds(config)
            fallback == Callable(_fallback_status(clock))
        IN  \E run \in { _collect_status(config, cache[remote], probe, local_uptime,
                                         service, clock) } :
            \E res \in { fetch_json_with_cache(cache[path], ttl_seconds, run.fetched,
                                               fallback, clock) } :
            \E bundle \in { IF res.raised # "" THEN Raise(res.raised)
                            ELSE StatusBundle(res.value, res.source) } :
                /\ cache' = [cache EXCEPT ![path] = res.file,
                                          ![remote] = IF res.fetches = 1 THEN run.file ELSE @]
                /\ lastGood' = [Remember(lastGood, path, res, run.fetched) EXCEPT
                                    ![remote] = IF res.fetches = 1 /\ run.file # cache[remote]
                                                THEN run.file.doc ELSE @]
                /\ last' = WithAnswers(
                              [Called("fetch_status", bundle, res.source,
                                      << Resolution(path, cache[path], ttl_seconds,
                                                    run.fetched, fallback, res) >>)
                                  EXCEPT !.probed = res.fetches = 1 /\ run.probed],
                              Probed(config, probe, cache[remote]))
    /\ UNCHANGED <<adapter, config, clock>>

-----------------------------------------------------------------------------
(* now_playing.py: parsing                                                 *)

HistoryLimit == 30

Letters == { UpperCase[i] : i \in 1 .. Len(UpperCase) } \cup { LowerCase[i] : i \in 1 .. Len(LowerCase) }
SchemeChars == Letters \cup { "0", "1", "2", "3", "4", "5", "6", "7", "8", "9", "+", "-", "." }

\* The first index from i on of a character of s that is in chars, 0 when none.
RECURSIVE FirstOf(_, _, _)
FirstOf(s, chars, i) ==
    IF i > Len(s) THEN 0
    ELSE IF s[i] \in chars THEN i
    ELSE FirstOf(s, chars, i + 1)

UpTo(s, cut) == IF cut = 0 THEN s ELSE SubSeq(s, 1, cut - 1)
From(s, cut) == IF cut = 0 THEN <<>> ELSE SubSeq(s, cut, Len(s))

\* urllib.parse.urlparse(raw): its scheme, netloc and path.
urlparse(raw) ==
    LET colon == Find(raw, <<":">>, 1)
        scheme == IF /\ colon > 1
                     /\ raw[1] \in Letters
                     /\ \A k \in 1 .. colon - 1 : raw[k] \in SchemeChars
                  THEN Lower(SubSeq(raw, 1, colon - 1)) ELSE <<>>
        rest == IF scheme # <<>> THEN SubSeq(raw, colon + 1, Len(raw)) ELSE raw
        hasNet == StartsWith(rest, <<"/", "/">>)
        afterNet == IF hasNet THEN SubSeq(rest, 3, Len(rest)) ELSE rest
        cut == FirstOf(afterNet, { "/", "?", "#" }, 1)
        tail == IF hasNet THEN From(afterNet, cut) ELSE rest
    IN  [scheme |-> scheme,
         netloc |-> IF hasNet THEN UpTo(afterNet, cut) ELSE <<>>,
         path |-> UpTo(tail, FirstOf(tail, { "?", "#" }, 1))]

_clean_text(value) == IF value = None THEN <<>> ELSE Strip(Str(value))

\* The scheme and the host of a URL are left in place.
_normalize_mount_whole(value) ==
    LET Rooted(path) == IF StartsWith(path, <<"/">>) THEN path ELSE <<"/">> \o path
        OrRoot(normalized) == IF normalized = <<>> THEN <<"/">> ELSE normalized
        Normalized(raw) ==
            IF raw = <<>> THEN <<>> ELSE OrRoot(RStripSlash(Rooted(raw)))
    IN  Normalized(Strip(Str(Or(value, Text(<<>>)))))

_normalize_mount(value) ==
    LET Rooted(path) == IF StartsWith(path, <<"/">>) THEN path ELSE <<"/">> \o path
        OrRoot(normalized) == IF normalized = <<>> THEN <<"/">> ELSE normalized
        Path(raw, parsed) ==
            IF parsed.scheme # <<>> /\ parsed.netloc # <<>> THEN parsed.path ELSE raw
        Normalized(raw) ==
            IF raw = <<>> THEN <<>>
            ELSE OrRoot(RStripSlash(Rooted(Path(raw, urlparse(raw)))))
    IN  Normalized(Strip(Str(Or(value, Text(<<>>)))))

\* The separators of _split_title, in the order they are tried (the dashes
\* U+2013 and U+2014 are the characters "en-dash" and "em-dash").
Separators == << <<" ", "-", " ">>, <<" ", "en-dash", " ">>, <<" ", "em-dash", " ">> >>

\* The title is split at the separator that comes first in it, whatever its
\* place in the order of the separators.
_split_title_leftmost(value) ==
    LET cleaned == Strip(value)
        present == { k \in 1 .. Len(Separators) : Find(cleaned, Separators[k], 1) # 0 }
    IN  IF present = {} THEN << <<>>, cleaned >>
        ELSE LET k == CHOOSE x \in present : \A y \in present :
                        Find(cleaned, Separators[x], 1) <= Find(cleaned, Separators[y], 1)
                 at == Find(cleaned, Separators[k], 1)
             IN  << Strip(SubSeq(cleaned, 1, at - 1)),
                    Strip(SubSeq(cleaned, at + Len(Separators[k]), Len(cleaned))) >>

\* _split_title(value): <<artist, track>>.
_split_title(value) ==
    LET cleaned == Strip(value)
        present == { k \in 1 .. Len(Separators) : Find(cleaned, Separators[k], 1) # 0 }
    IN  IF present = {} THEN << <<>>, cleaned >>
        ELSE LET k == CHOOSE x \in present : \A y \in present : x <= y
                 at == Find(cleaned, Separators[k], 1)
             IN  << Strip(SubSeq(cleaned, 1, at - 1)),
                    Strip(SubSeq(cleaned, at + Len(Separators[k]), Len(cleaned))) >>

Desconocido == <<"D", "e", "s", "c", "o", "n", "o", "c", "i", "d", "o">>

_extract_now_payload(record, default_url) ==
    LET title == _clean_text(Get(record, "title"))
        track0 == _clean_text(Or(Get(record, "track"), Get(record, "song")))
        artist0 == _clean_text(Or(Or(Get(record, "artist"), Get(record, "server_name")),
                                  Get(record, "dj")))
        split == title # <<>> /\ (track0 = <<>> \/ artist0 = <<>>)
        parsed == _split_title(title)
        artist1 == IF split /\ artist0 = <<>> /\ parsed[1] # <<>> THEN parsed[1] ELSE artist0
        track1 == IF split /\ track0 = <<>>
                  THEN (IF parsed[2] # <<>> THEN parsed[2] ELSE title)
                  ELSE track0
    IN  [track |-> IF track1 # <<>> THEN track1 ELSE title,
         artist |-> IF artist1 # <<>> THEN artist1 ELSE Desconocido,
         url |-> _clean_text(Or(Or(Or(Or(Get(record, "url"), Get(record, "listenurl")),
                                      Get(record, "server_url")),
                                   Text(default_url)),
                                Text(<<>>))),
         started_at |-> Or(Or(Or(Or(Get(record, "started_at"), Get(record, "stream_start")),
                                 Get(record, "started")),
                              Get(record, "timestamp")),
                           Text(<<>>))]

\* Lines 176-188: the history row of a record whose now fields are now_payload.
HistoryRow(record, now_payload) ==
    [shape |-> "dict",
     track |-> Text(now_payload.track),
     artist |-> Text(now_payload.artist),
     url |-> Text(now_payload.url),
     played_at |-> Or(Or(Or(Or(Get(record, "played_at"), Get(record, "started_at")),
                            Get(record, "stream_start")),
                         Get(record, "timestamp")),
                      Text(<<>>))]

_extract_history_payload(record, default_url) ==
    HistoryRow(record, _extract_now_payload(record, default_url))

\* The elements of a list value that are dicts.
Dicts(items) == SelectSeq(items, LAMBDA item : item.shape = "dict")

_extract_sources(payload) ==
    LET listed(key) == IF Get(payload, key).shape = "list"
                       THEN Dicts(Get(payload, key).l) ELSE <<>>
        icestats == Get(payload, "icestats")
        source_value == IF icestats.shape = "dict" THEN Get(icestats, "source") ELSE None
    IN  listed("sources") \o listed("mounts")
          \o (IF source_value.shape = "dict" THEN <<source_value>>
              ELSE IF source_value.shape = "list" THEN Dicts(source_value.l)
              ELSE <<>>)

\* Lines 210-222: the comparison with the normalised mount asked for.
MountMatches(source, target_mount) ==
    \/ target_mount = <<>>
    \/ \E key \in { "mount", "listenurl", "server_url", "url" } :
            _normalize_mount(Get(source, key)) = target_mount

_matches_mount(source, mount) == MountMatches(source, _normalize_mount(Text(mount)))

\* Lines 226-229: the first of the matching sources, else the first source, else None.
FirstSource(sources, matching) ==
    IF matching # {} THEN sources[CHOOSE i \in matching : \A j \in matching : i <= j]
    ELSE IF sources # <<>> THEN sources[1]
    ELSE None

_select_source(sources, mount) ==
    FirstSource(sources, { i \in 1 .. Len(sources) : _matches_mount(sources[i], mount) })

SilenceSentinels ==
    { <<"s", "i", "l", "e", "n", "c", "e">>, <<"s", "i", "l", "e", "n", "c", "i", "o">> }

\* Lines 241-251: the now item of the selected source, else of the "now"
\* dict, else of the payload itself when it names a track, else None.
SourceNowPayload(payload, selected_source, default_url) ==
    IF Truthy(selected_source)
    THEN _extract_now_payload(selected_source, default_url)
    ELSE IF Get(payload, "now").shape = "dict"
    THEN _extract_now_payload(Get(payload, "now"), default_url)
    ELSE IF \E key \in { "track", "artist", "song", "title" } :
                _clean_text(Get(payload, key)) # <<>>
    THEN _extract_now_payload(payload, default_url)
    ELSE None

\* Lines 253-277: the history rows, and the now item unless it is missing,
\* untitled or a silence sentinel.
ParsedSource(payload, default_url, now_payload) ==
    LET raw_history == IF Get(payload, "history").shape = "list" THEN Get(payload, "history").l
                       ELSE IF Get(payload, "now_history").shape = "list"
                       THEN Get(payload, "now_history").l
                       ELSE <<>>
        items == Dicts(raw_history)
        item_default_url == IF now_payload # None THEN now_payload.url ELSE default_url
        track_name == IF now_payload = None THEN <<>> ELSE Lower(Strip(now_payload.track))
    IN  [now |-> IF now_payload = None \/ track_name = <<>> \/ track_name \in SilenceSentinels
                 THEN None ELSE now_payload,
         history |-> [i \in 1 .. Len(items) |->
                         _extract_history_payload(items[i], item_default_url)]]

\* _parse_source_payload(payload, mount): [now |-> the now item or None,
\* history |-> the history items].
_parse_source_payload(payload, mount) ==
    IF payload.shape # "dict" THEN [now |-> None, history |-> <<>>]
    ELSE IF Get(payload, "success") = Bool(FALSE) THEN [now |-> None, history |-> <<>>]
    ELSE ParsedSource(payload,
                      Strip(Str(Or(Or(Get(payload, "url"), Get(payload, "listenurl")),
                                   Text(<<>>)))),
                      SourceNowPayload(payload,
                                       _select_source(_extract_sources(payload), mount),
                                       Strip(Str(Or(Or(Get(payload, "url"),
                                                       Get(payload, "listenurl")),
                                                    Text(<<>>))))))

\* Lines 281-287: the title of the selected source when it has one, else the payload's.
PayloadTitle(payload, selected_source) ==
    LET title == IF Truthy(selected_source)
                 THEN _clean_text(Or(Or(Get(selected_source, "title"),
                                        Get(selected_source, "track")),
                                     Get(selected_source, "song")))
                 ELSE <<>>
    IN  IF title # <<>> THEN title
        ELSE _clean_text(Or(Or(Get(payload, "title"), Get(payload, "track")),
                            Get(payload, "song")))

_payload_title_for_log(payload, mount) ==
    PayloadTitle(payload, _select_source(_extract_sources(payload), mount))

\* The strings dateutil's parser reads as a date, among those the model uses.
ParsableDates == { <<"2", "0", "2", "6">> }

\* utils.to_datetime(value): the datetime (here its text), or what parsing raises.
to_datetime(value) ==
    IF value.shape = "str" /\ Strip(value.s) # <<>>
    THEN IF value.s \in ParsableDates THEN Return(value.s) ELSE Raise("ValueError")
    ELSE Return(<<"n", "o", "w">>)

_unavailable_now ==
    [track |-> <<"N", "o", " ", "d", "i", "s", "p", "o", "n", "i", "b", "l", "e">>,
     artist |-> <<>>, url |-> <<>>, started_at |-> <<>>,
     available |-> FALSE, live |-> FALSE]

\* Every normalised item is marked live.
_normalize_now_always_live(item, live) ==
    IF Truthy(item.started_at) /\ to_datetime(item.started_at).raised # ""
    THEN Raise(to_datetime(item.started_at).raised)
    ELSE Return([track |-> item.track, artist |-> Strip(item.artist),
                 url |-> Strip(item.url), started_at |-> <<>>,
                 available |-> TRUE, live |-> TRUE])

_normalize_now(item, live) ==
    LET parsed_started == IF Truthy(item.started_at)
                          THEN to_datetime(item.started_at) ELSE Return(<<>>)
    IN  IF parsed_started.raised # "" THEN Raise(parsed_started.raised)
        ELSE Return([track |-> item.track, artist |-> Strip(item.artist),
                     url |-> Strip(item.url), started_at |-> parsed_started.value,
                     available |-> TRUE, live |-> live])

\* _normalize_history(history): the rows of the first HistoryLimit items.
_normalize_history(history) ==
    LET items == Take(history, HistoryLimit)
        played(item) == IF Truthy(Get(item, "played_at"))
                        THEN to_datetime(Get(item, "played_at")) ELSE Return(<<>>)
    IN  IF \E i \in 1 .. Len(items) : items[i].shape # "dict"
        THEN Raise("AttributeError")
        ELSE IF \E i \in 1 .. Len(items) : played(items[i]).raised # ""
        THEN Raise("ValueError")
        ELSE Return([i \in 1 .. Len(items) |->
                        [track |-> IF "track" \in DOMAIN items[i]
                                   THEN Str(items[i].track) ELSE Desconocido,
                         played_at |-> played(items[i]).value]])

-----------------------------------------------------------------------------
(* now_playing.py: fetching                                                *)

DefaultCacheTtlSec == 60

Max(a, b) == IF a >= b THEN a ELSE b

\* The bodies the now-playing endpoint answers with, parsed.
TxtGo == <<"G", "o">>
TxtDate == <<"2", "0", "2", "6">>
Playing ==
    [shape |-> "dict", track |-> Text(TxtGo), artist |-> Text(<<"M", "e">>),
     started_at |-> Text(TxtDate),
     history |-> List(<< [shape |-> "dict", track |-> Text(<<"U", "p">>),
                          played_at |-> Text(TxtDate)] >>)]
Titled == [shape |-> "dict", title |-> Text(<<"A", " ", "-", " ", "B">>)]
Silent == [shape |-> "dict", track |-> Text(<<"S", "i", "l", "e", "n", "c", "i", "o">>)]
Undated == [shape |-> "dict", track |-> Text(TxtGo), started_at |-> Text(<<"s", "o", "o", "n">>)]
Refused == [shape |-> "dict", success |-> Bool(FALSE), track |-> Text(TxtGo)]
Untracked == [shape |-> "dict", artist |-> Text(<<"M", "e">>)]
\* A server with two mounts, the second one silent.
MountA == <<"/", "a">>
MountB == <<"/", "b">>
Mounted ==
    [shape |-> "dict",
     sources |-> List(<< [shape |-> "dict", mount |-> Text(MountA), track |-> Text(TxtGo)],
                         [shape |-> "dict", mount |-> Text(MountB),
                          track |-> Text(<<"s", "i", "l", "e", "n", "c", "e">>)] >>)]

NowPayloads ==
    { Playing, Titled, Silent, Untracked, Undated, Refused, Mounted, List(<<>>), None }

\* The bodies the model lets the legacy endpoint answer with (every one of
\* them is stored in now_playing.json).
LegacyPayloads == { Playing, Titled, Silent, None }

\* What the endpoint does: a failure of the request, or a body.
NowAnswers(cfg) ==
    [raised : FetchFailures, payload : {None}]
      \cup [raised : {""},
            payload : IF cfg.source_url # <<>> THEN NowPayloads ELSE LegacyPayloads]

\* The bodies the legacy history endpoint answers with.
HistoryPayloads ==
    { List(<< [shape |-> "dict", track |-> Text(<<"U", "p">>), played_at |-> Text(TxtDate)] >>),
      EmptyDict }
NoHistoryAnswer == [raised |-> "Timeout", payload |-> None]
HistoryAnswers == { NoHistoryAnswer } \cup [raised : {""}, payload : HistoryPayloads]

\* The history endpoint is asked only after the now endpoint answered with a
\* playable body (lines 390-400), so only then does its answer vary.
HistoryAnswersAfter(cfg, answer) ==
    IF /\ Strip(cfg.source_url) = <<>>
       /\ Strip(cfg.now_history_url) # <<>>
       /\ answer.raised = ""
       /\ answer.payload \in { Playing, Titled }
    THEN HistoryAnswers ELSE { NoHistoryAnswer }

\* The status is logged after raise_for_status: an error status leaves no line.
_fetch_json_with_diagnostics_status_late(url, answer) ==
    CASE answer.raised \in { "ConnectionError", "Timeout", "HTTPError" } ->
            [raised |-> answer.raised, value |-> None, log |-> <<"request_url">>]
      [] answer.raised = "ValueError" ->
            [raised |-> "ValueError", value |-> None,
             log |-> <<"request_url", "status_code", "json_parse=false">>]
      [] OTHER ->
            [raised |-> "", value |-> answer.payload,
             log |-> <<"request_url", "status_code", "json_parse=true">>]

\* _fetch_json_with_diagnostics(url, timeout_sec): what it raises or returns, and its log.
_fetch_json_with_diagnostics(url, answer) ==
    CASE answer.raised \in { "ConnectionError", "Timeout" } ->
            [raised |-> answer.raised, value |-> None, log |-> <<"request_url">>]
      [] answer.raised = "HTTPError" ->
            [raised |-> "HTTPError", value |-> None, log |-> <<"request_url", "status_code">>]
      [] answer.raised = "ValueError" ->
            [raised |-> "ValueError", value |-> None,
             log |-> <<"request_url", "status_code", "json_parse=false">>]
      [] OTHER ->
            [raised |-> "", value |-> answer.payload,
             log |-> <<"request_url", "status_code", "json_parse=true">>]

\* A relative URL is handed on as it is when there is no domain.
_resolve_source_url_relative(cfg, source_url) ==
    IF ~StartsWith(source_url, <<"/">>) THEN source_url
    ELSE RStripSlash(Strip(cfg.domain)) \o source_url

_resolve_source_url(cfg, source_url) ==
    IF ~StartsWith(source_url, <<"/">>) THEN source_url
    ELSE LET domain == RStripSlash(Strip(cfg.domain))
         IN  IF domain = <<>> THEN <<>> ELSE domain \o source_url

\* What fetch_now does: what it raises or returns (now, history, source), the
\* resolutions it made, the cache files afterwards and its log.
NowOutcome(out, history, source, calls, files, log) ==
    [raised |-> out.raised, value |-> out.value, history |-> history,
     source |-> source, calls |-> calls, files |-> files, log |-> log]

\* The history of the payload is attached whether the payload is live or not.
SourceOutcome_history_always(parsed, payload_source, calls, files, log) ==
    IF parsed.now = None
    THEN NowOutcome(Return(_unavailable_now), <<>>, <<payload_source, "none">>, calls,
                    files, log)
    ELSE NowOutcome(Return([_unavailable_now EXCEPT !.available = TRUE]),
                    parsed.history, <<payload_source, "live">>, calls, files, log)

\* The payload of a fresh cache is reported as a track without the gate.
SourceOutcome_cache_ungated(parsed, payload_source, calls, files, log) ==
    IF parsed.now = None /\ payload_source # "cache"
    THEN NowOutcome(Return(_unavailable_now), <<>>, <<payload_source, "none">>, calls,
                    files, log)
    ELSE NowOutcome(Return([_unavailable_now EXCEPT !.available = TRUE]), <<>>,
                    <<payload_source, "disabled">>, calls, files, log)

\* Lines 348-360: the result from what the chosen payload parses to.
SourceOutcome(parsed, payload_source, calls, files, log) ==
    LET live == payload_source = "live"
        normalized_now == _normalize_now(parsed.now, live)
        normalized_history == _normalize_history(parsed.history)
    IN  IF parsed.now = None
        THEN NowOutcome(Return(_unavailable_now), <<>>, <<payload_source, "none">>, calls,
                        files, log \o <<"playable_now_missing_in_cache=true">>)
        ELSE IF normalized_now.raised # ""
        THEN NowOutcome(normalized_now, <<>>, <<>>, calls, files, log)
        ELSE IF ~live
        THEN NowOutcome(normalized_now, <<>>, <<payload_source, "disabled">>, calls,
                        files, log)
        ELSE IF normalized_history.raised # ""
        THEN NowOutcome(normalized_history, <<>>, <<>>, calls, files, log)
        ELSE NowOutcome(normalized_now, normalized_history.value,
                        <<payload_source, "live">>, calls, files, log)

SourceResult(payload, payload_source, mount, calls, files, log) ==
    SourceOutcome(_parse_source_payload(IF Truthy(payload) THEN payload ELSE EmptyDict,
                                        mount),
                  payload_source, calls, files, log)

\* The try block without the raise of lines 329-331.
CheckedFetch_unchecked(fetched, playable, log) ==
    IF fetched.raised # "" THEN fetched
    ELSE IF fetched.value.shape # "dict"
    THEN [raised |-> "AttributeError", value |-> None, log |-> fetched.log]
    ELSE [raised |-> "", value |-> fetched.value, log |-> log]

\* Lines 324-333: what the try block makes of the fetched payload before the write.
CheckedFetch(fetched, playable, log) ==
    IF fetched.raised # "" THEN fetched
    ELSE IF fetched.value.shape # "dict"
    THEN [raised |-> "AttributeError", value |-> None, log |-> fetched.log]
    ELSE IF ~playable
    THEN [raised |-> "ValueError", value |-> None, log |-> log]
    ELSE [raised |-> "", value |-> fetched.value, log |-> log]

\* Lines 322-333: the fetch and its checks, with what they log.
SourceFetch(fetched, mount) ==
    CheckedFetch(fetched,
                 _parse_source_payload(fetched.value, mount).now # None,
                 fetched.log
                   \o (IF Get(fetched.value, "success") = Bool(FALSE)
                       THEN <<"payload_success=false">> ELSE <<>>)
                   \o (IF _payload_title_for_log(fetched.value, mount) = <<>>
                       THEN <<"payload_title_empty=true">> ELSE <<>>))

\* Lines 311-346: the payload the ladder chooses and where from, or what it
\* returns or raises at once; rd is what reading the cache file gave.
SourceLadder(f, ttl_seconds, rd, fetched, now) ==
    IF rd.raised # ""
    THEN [returns |-> TRUE, out |-> Raise(rd.raised), source |-> <<>>,
          payload |-> None, payload_source |-> "",
          res |-> Resolved(rd.raised, None, "", f, 0, 0), log |-> <<>>]
    ELSE IF rd.value # None /\ is_cache_fresh(f, ttl_seconds, now)
    THEN [returns |-> FALSE, out |-> Return(None), source |-> <<>>,
          payload |-> rd.value, payload_source |-> "cache",
          res |-> Resolved("", rd.value, "cache", f, 0, 0),
          log |-> <<"using_fresh_cache=true">>]
    ELSE IF fetched.raised = ""
    THEN [returns |-> FALSE, out |-> Return(None), source |-> <<>>,
          payload |-> fetched.value, payload_source |-> "live",
          res |-> Resolved("", fetched.value, "live", write_json(fetched.value, now), 1, 0),
          log |-> fetched.log]
    ELSE IF ~Caught(fetched.raised)
    THEN [returns |-> TRUE, out |-> Raise(fetched.raised), source |-> <<>>,
          payload |-> None, payload_source |-> "",
          res |-> Resolved(fetched.raised, None, "", f, 1, 0), log |-> fetched.log]
    ELSE IF rd.value # None
    THEN [returns |-> FALSE, out |-> Return(None), source |-> <<>>,
          payload |-> rd.value, payload_source |-> "stale",
          res |-> Resolved("", rd.value, "stale", f, 1, 0),
          log |-> fetched.log \o <<"live_fetch_error", "using_last_known_good_cache=true">>]
    ELSE [returns |-> TRUE, out |-> Return(_unavailable_now), source |-> <<"unavailable">>,
          payload |-> None, payload_source |-> "",
          res |-> Resolved("", None, "unavailable", f, 1, 0),
          log |-> fetched.log \o <<"live_fetch_error", "no_last_known_good_cache=true">>]

\* Lines 311-360: the outcome of the ladder's step, with the resolution it made.
SourceLadderOutcome(step, path, ttl_seconds, mount, files, answer) ==
    LET calls == << Resolution(path, files[path], ttl_seconds,
                               [raised |-> answer.raised, value |-> answer.payload],
                               None, step.res) >>
        files1 == [files EXCEPT ![path] = step.res.file]
    IN  IF step.returns
        THEN NowOutcome(step.out, <<>>, step.source, calls, files1, step.log)
        ELSE SourceResult(step.payload, step.payload_source, mount, calls, files1, step.log)

\* _fetch_from_source_endpoint: handled is FALSE when it returns None (no source_url).
_fetch_from_source_endpoint(cfg, files, answer, now) ==
    LET source_url == Strip(cfg.source_url)
        resolved_source_url == _resolve_source_url(cfg, source_url)
        cache_ttl_sec == IF Truthy(cfg.cache_ttl_sec)
                         THEN cfg.cache_ttl_sec.n ELSE DefaultCacheTtlSec
        mount == Strip(cfg.mount)
        path == "now_source.json"
    IN  IF source_url = <<>>
        THEN [handled |-> FALSE, outcome |-> None]
        ELSE IF resolved_source_url = <<>>
        THEN [handled |-> TRUE,
              outcome |-> NowOutcome(Return(_unavailable_now), <<>>, <<"unavailable">>, <<>>,
                                     files, <<"source_url_unresolved=true">>)]
        ELSE [handled |-> TRUE,
              outcome |->
                SourceLadderOutcome(
                    SourceLadder(files[path], Max(cache_ttl_sec, 0),
                                 read_json(files[path], None),
                                 SourceFetch(_fetch_json_with_diagnostics(
                                                 resolved_source_url, answer),
                                             mount),
                                 now),
                    path, Max(cache_ttl_sec, 0), mount, files, answer)]

\* _read_local_json(path, default)
_read_local_json(f, default) ==
    LET data == read_json(f, None)
    IN  IF data.raised # "" THEN data
        ELSE IF data.value = None THEN Return(default) ELSE data

\* Lines 376-385 and 400-409: one legacy endpoint resolved through
\* fetch_json_with_cache, or its cache file read when no URL is configured.
LegacyResolve(url, f, ttl_seconds, answer, default, now) ==
    LET fetched == _fetch_json_with_diagnostics(url, answer)
        local == _read_local_json(f, default)
    IN  IF url # <<>>
        THEN LET res == fetch_json_with_cache(f, ttl_seconds,
                                [raised |-> fetched.raised, value |-> fetched.value],
                                Plain(default), now)
             IN  [res |-> res, resolved |-> TRUE,
                  log |-> IF res.fetches = 1 THEN fetched.log ELSE <<>>]
        ELSE [res |-> Resolved(local.raised, local.value,
                               IF f.exists THEN "cache-local" ELSE "missing", f, 0, 0),
              resolved |-> FALSE, log |-> <<>>]

\* Lines 386-415: the result from what the two endpoints resolved to;
\* now_candidate is the now item the first one's payload parses to.
LegacyOutcome(cfg, files, answer, history_answer, first, now_candidate, second) ==
    LET ttl_seconds == Max(cfg.now_ttl_minutes * MinuteSec, 0)
        now_path == "now_playing.json"
        history_path == "now_history.json"
        live == first.res.source = "live"
        normalized_now == _normalize_now(now_candidate, live)
        normalized_history == _normalize_history(IF second.res.value.shape = "list"
                                                 THEN second.res.value.l ELSE <<>>)
        files1 == [files EXCEPT ![now_path] = first.res.file]
        calls1 == IF first.resolved
                  THEN << Resolution(now_path, files[now_path], ttl_seconds,
                                     [raised |-> answer.raised, value |-> answer.payload],
                                     Plain(EmptyDict), first.res) >>
                  ELSE <<>>
        files2 == [files1 EXCEPT ![history_path] = second.res.file]
        calls2 == IF second.resolved
                  THEN calls1 \o << Resolution(history_path, files[history_path],
                                               ttl_seconds,
                                               [raised |-> history_answer.raised,
                                                value |-> history_answer.payload],
                                               Plain(List(<<>>)), second.res) >>
                  ELSE calls1
    IN  IF first.res.raised # ""
        THEN NowOutcome(Raise(first.res.raised), <<>>, <<>>, calls1, files1, first.log)
        ELSE IF now_candidate = None
        THEN NowOutcome(Return(_unavailable_now), <<>>, <<first.res.source, "none">>,
                        calls1, files1, first.log)
        ELSE IF normalized_now.raised # ""
        THEN NowOutcome(normalized_now, <<>>, <<>>, calls1, files1, first.log)
        ELSE IF ~live
        THEN NowOutcome(normalized_now, <<>>, <<first.res.source, "disabled">>, calls1,
                        files1, first.log)
        ELSE IF second.res.raised # ""
        THEN NowOutcome(Raise(second.res.raised), <<>>, <<>>, calls2, files2,
                        first.log \o second.log)
        ELSE IF normalized_history.raised # ""
        THEN NowOutcome(normalized_history, <<>>, <<>>, calls2, files2,
                        first.log \o second.log)
        ELSE NowOutcome(normalized_now, normalized_history.value,
                        <<first.res.source, second.res.source>>, calls2, files2,
                        first.log \o second.log)

\* Lines 386-388: the payload of the first endpoint, parsed.
LegacyResolved(cfg, files, answer, history_answer, first, second) ==
    LegacyOutcome(cfg, files, answer, history_answer, first,
                  _parse_source_payload(IF first.res.value.shape = "dict"
                                        THEN first.res.value ELSE EmptyDict, <<>>).now,
                  second)

_fetch_legacy_endpoints(cfg, files, answer, history_answer, now) ==
    LegacyResolved(cfg, files, answer, history_answer,
                   LegacyResolve(Strip(cfg.now_playing_url), files["now_playing.json"],
                                 Max(cfg.now_ttl_minutes * MinuteSec, 0), answer,
                                 EmptyDict, now),
                   LegacyResolve(Strip(cfg.now_history_url), files["now_history.json"],
                                 Max(cfg.now_ttl_minutes * MinuteSec, 0), history_answer,
                                 List(<<>>), now))

\* Lines 423-426: the source endpoint's result unless it is None.
OrLegacy(source_result, legacy) ==
    IF source_result.handled THEN source_result.outcome ELSE legacy

fetch_now(cfg, files, answer, history_answer, now) ==
    OrLegacy(_fetch_from_source_endpoint(cfg, files, answer, now),
             _fetch_legacy_endpoints(cfg, files, answer, history_answer, now))

\* lastGood after the resolutions of one call: a fetch is successful when the
\* endpoint answered with a body and, on the source endpoint, the body holds
\* a playable now item.
RECURSIVE RememberAll(_, _, _)
RememberAll(good, calls, mount) ==
    IF calls = <<>> THEN good
    ELSE RememberAll(IF /\ Head(calls).fetches = 1
                        /\ Head(calls).fetched.raised = ""
                        /\ Head(calls).path = "now_source.json" =>
                             _parse_source_payload(Head(calls).fetched.value, mount).now
                               # None
                     THEN [good EXCEPT ![Head(calls).path] = Head(calls).fetched.value]
                     ELSE good,
                     Tail(calls), mount)

FetchNow ==
    /\ adapter = "now"
    /\ \E answer \in NowAnswers(config) :
       \E history_answer \in HistoryAnswersAfter(config, answer) :
       \E o \in { fetch_now(config, cache, answer, history_answer, clock) } :
            /\ cache' = o.files
            /\ lastGood' = RememberAll(lastGood, o.calls, Strip(config.mount))
            /\ last' = [Called("fetch_now", o, o.source, o.calls)
                            EXCEPT !.history = o.history, !.log = o.log]
    /\ UNCHANGED <<adapter, config, clock>>

-----------------------------------------------------------------------------

CacheFiles ==
    { "feeds.json", "weather.json", "status.json", "status_remote.json",
      "now_source.json", "now_playing.json", "now_history.json" }

Adapters == { "links", "weather", "status", "now" }

\* The values given to the *_ttl_minutes keys of config.yaml.
TtlMinutes == { -1, 0, 1 }

BaseConfig ==
    [feeds |-> <<>>, feeds_ttl_minutes |-> 0, weather_ttl_minutes |-> 0,
     status_ttl_minutes |-> 0, metrics_mode |-> "local", ssh_target |-> "",
     allow_fallback_cache |-> TRUE, source_url |-> <<>>, domain |-> <<>>,
     cache_ttl_sec |-> None, mount |-> <<>>, now_playing_url |-> <<>>,
     now_history_url |-> <<>>, now_ttl_minutes |-> 0]

\* The URLs of config.yaml: an absolute one, a relative one, the site's domain.
UrlAbsolute == <<"h", ":", "/", "/", "x", "/", "s">>
UrlRelative == <<"/", "n">>
SiteDomain == <<"h", ":", "/", "/", "d", "/">>

\* The configurations of a behaviour that follows adapter a: the keys a reads
\* take every value, the others stay as in BaseConfig.
Configs(a) ==
    CASE a = "links" ->
            { [BaseConfig EXCEPT !.feeds = f, !.feeds_ttl_minutes = t] :
                f \in { <<>>, <<"blog">>, <<"blog", "news">> }, t \in { 0, 1 } }
      [] a = "weather" ->
            { [BaseConfig EXCEPT !.weather_ttl_minutes = t] : t \in TtlMinutes }
      [] a = "status" ->
            { [BaseConfig EXCEPT !.status_ttl_minutes = t] : t \in TtlMinutes }
              \cup { [BaseConfig EXCEPT !.status_ttl_minutes = t, !.metrics_mode = "remote_ssh",
                                        !.ssh_target = h, !.allow_fallback_cache = c] :
                        t \in { 0, 1 }, h \in { "", "pi@host" }, c \in BOOLEAN }
      [] a = "now" ->
            { [BaseConfig EXCEPT !.source_url = UrlAbsolute, !.cache_ttl_sec = t] :
                t \in { None, Number(-1), Number(0), Number(1) } }
              \cup { [BaseConfig EXCEPT !.source_url = UrlAbsolute,
                                        !.cache_ttl_sec = Number(1), !.mount = MountB] }
              \cup { [BaseConfig EXCEPT !.source_url = UrlRelative, !.domain = d,
                                        !.cache_ttl_sec = Number(1)] :
                        d \in { <<>>, <<" ">>, SiteDomain } }
              \cup { [BaseConfig EXCEPT !.now_playing_url = UrlAbsolute,
                                        !.now_history_url = h, !.now_ttl_minutes = t] :
                        h \in { <<>>, UrlAbsolute }, t \in { 0, 1 } }
              \cup { BaseConfig }

(* Time passes between two calls.                                          *)

Tick ==
    /\ \E t \in Instants : t > clock /\ clock' = t
    /\ last' = Idle
    /\ UNCHANGED <<adapter, config, cache, lastGood>>

\* config.yaml is edited between two builds; whether now-playing uses its
\* source endpoint or the legacy endpoints stays as it is.
Reconfigure ==
    /\ \E c \in Configs(adapter) :
        /\ c # config
        /\ (c.source_url = <<>>) = (config.source_url = <<>>)
        /\ config' = c
    /\ last' = Idle
    /\ UNCHANGED <<adapter, clock, cache, lastGood>>

-----------------------------------------------------------------------------

Init ==
    /\ adapter \in Adapters
    /\ config \in Configs(adapter)
    /\ clock = 0
    /\ cache = [p \in CacheFiles |-> Absent]
    /\ last = Idle
    /\ lastGood = [p \in CacheFiles |-> None]

Next == FetchLinks \/ FetchWeather \/ FetchStatus \/ FetchNow \/ Tick \/ Reconfigure

Spec == Init /\ [][Next]_vars

-----------------------------------------------------------------------------
(* utils.py: the cache store on its own.  read_json and is_cache_fresh are   *)
(* applied to a cache file in any state a file can be in.                    *)

\* The path the store is exercised on.
StorePath == "weather.json"

\* JSON documents a cache file can hold.
Documents == { None, Number(1), EmptyDict, List(<<>>), Playing }

\* The defaults read_json is called with (None, {} and []).
Defaults == { None, EmptyDict, List(<<>>) }

\* The ttl_seconds is_cache_fresh is called with.
TtlSeconds == { -MinuteSec, 0, 1, MinuteSec }

\* The states of a file last written at time t.
FilesAt(t) ==
    { File(d, t) : d \in Documents }
      \cup { [exists |-> TRUE, kind |-> k, doc |-> None, mtime |-> t] :
                k \in { "garbled", "binary" } }

InitStore ==
    /\ adapter = "store"
    /\ config = BaseConfig
    /\ clock \in Instants
    /\ \E f \in { Absent } \cup UNION { FilesAt(t) : t \in { i \in Instants : i <= clock } } :
        cache = [p \in CacheFiles |-> IF p = StorePath THEN f ELSE Absent]
    /\ last = Idle
    /\ lastGood = [p \in CacheFiles |-> None]

\* read_json(path, default)
ReadJson ==
    /\ adapter = "store"
    /\ \E default \in Defaults :
       \E r \in { read_json(cache[StorePath], default) } :
            last' = [op |-> "read_json", at |-> clock, default |-> default,
                     raised |-> r.raised, value |-> r.value]
    /\ UNCHANGED <<adapter, config, clock, cache, lastGood>>

\* is_cache_fresh(path, ttl_seconds)
IsCacheFresh ==
    /\ adapter = "store"
    /\ \E ttl_seconds \in TtlSeconds :
            last' = [op |-> "is_cache_fresh", at |-> clock, ttl_seconds |-> ttl_seconds,
                     raised |-> "",
                     value |-> Bool(is_cache_fresh(cache[StorePath], ttl_seconds, clock))]
    /\ UNCHANGED <<adapter, config, clock, cache, lastGood>>

NextStore == ReadJson \/ IsCacheFresh

SpecStore == InitStore /\ [][NextStore]_vars

-----------------------------------------------------------------------------
(* utils.py: write_json step by step (lines 34-37): path.open("w") empties   *)
(* the file, json.dump writes the document piece by piece, leaving the with  *)
(* block closes the file; an exception raised in between leaves the file as  *)
(* it is at that point.  Another read_json of the path may come at any step. *)

\* The number of pieces json.dump writes a document in.
MaxChunks == 2

\* The path written, and the documents written to it: the objects the legacy
\* now-playing endpoint answers with.
WritePath == "now_playing.json"
WriteDocuments == { d \in LegacyPayloads : d.shape = "dict" }

\* The file while n pieces of payload are in it.
Written(payload, n, t) ==
    IF n = MaxChunks THEN File(payload, t)
    ELSE [exists |-> TRUE, kind |-> "garbled", doc |-> None, mtime |-> t]

\* The state of a write_json call: where it is, what it writes, the file it
\* found, and what the latest read_json of the path returned (if any).
Writing(pc, payload, written, previous, read) ==
    [op |-> "write_json", pc |-> pc, payload |-> payload, written |-> written,
     previous |-> previous, read |-> read]

NoRead == [raised |-> "", value |-> None, made |-> FALSE]

InitWrite ==
    /\ adapter = "write"
    /\ config = BaseConfig
    /\ clock = 0
    /\ \E f \in { Absent } \cup { File(d, 0) : d \in WriteDocuments } :
        cache = [p \in CacheFiles |-> IF p = WritePath THEN f ELSE Absent]
    /\ last = Idle
    /\ lastGood = [p \in CacheFiles |-> None]

\* write_json(path, payload) is called (line 35: ensure_dir).
WriteCall ==
    /\ adapter = "write"
    /\ last.op = "write_json" => last.pc \in { "returned", "raised" }
    /\ \E payload \in WriteDocuments \ { cache[WritePath].doc } :
        last' = Writing("open", payload, 0, cache[WritePath], NoRead)
    /\ UNCHANGED <<adapter, config, clock, cache, lastGood>>

\* Line 36: path.open("w") truncates the file.
WriteOpen ==
    /\ adapter = "write"
    /\ last.op = "write_json" /\ last.pc = "open"
    /\ cache' = [cache EXCEPT ![WritePath] = Written(last.payload, 0, clock)]
    /\ last' = [last EXCEPT !.pc = "dump"]
    /\ UNCHANGED <<adapter, config, clock, lastGood>>

\* Line 37: json.dump writes the next piece.
WriteChunk ==
    /\ adapter = "write"
    /\ last.op = "write_json" /\ last.pc = "dump" /\ last.written < MaxChunks
    /\ cache' = [cache EXCEPT ![WritePath] = Written(last.payload, last.written + 1, clock)]
    /\ last' = [last EXCEPT !.written = @ + 1]
    /\ UNCHANGED <<adapter, config, clock, lastGood>>

\* The with block is left after the last piece: write_json returns.
WriteClose ==
    /\ adapter = "write"
    /\ last.op = "write_json" /\ last.pc = "dump" /\ last.written = MaxChunks
    /\ last' = [last EXCEPT !.pc = "returned"]
    /\ UNCHANGED <<adapter, config, clock, cache, lastGood>>

\* A write raises before the last piece (OSError: disk full, I/O error): the
\* with block closes the file and write_json raises.
WriteFail ==
    /\ adapter = "write"
    /\ last.op = "write_json" /\ last.pc = "dump" /\ last.written < MaxChunks
    /\ last' = [last EXCEPT !.pc = "raised"]
    /\ UNCHANGED <<adapter, config, clock, cache, lastGood>>

\* read_json(path, None) by a reader of the cache file, at any point from the
\* call of write_json on.
WriteObserved ==
    /\ adapter = "write"
    /\ last.op = "write_json"
    /\ \E r \in { read_json(cache[WritePath], None) } :
        last' = [last EXCEPT !.read = [raised |-> r.raised, value |-> r.value, made |-> TRUE]]
    /\ UNCHANGED <<adapter, config, clock, cache, lastGood>>

NextWrite == WriteCall \/ WriteOpen \/ WriteChunk \/ WriteClose \/ WriteFail \/ WriteObserved

SpecWrite == InitWrite /\ [][NextWrite]_vars

-----------------------------------------------------------------------------
(* utils.py: the text write_json stores and read_json loads.  json.dump     *)
(* (line 37, ensure_ascii=False, indent=2) turns a document into characters  *)
(* and json.load (line 29) parses characters into a document.  A key of an   *)
(* object is one element of the text.                                        *)

Quote == "quote"
Backslash == "backslash"
Newline == "newline"
JsonWhitespace == { " ", Newline }
DigitChars == <<"0", "1", "2", "3", "4", "5", "6", "7", "8", "9">>

\* The keys of a dict value.
Keys(d) == DOMAIN d \ { "shape" }

\* json.dump of a string leaves a character as it is.
Escaped_raw(c) == <<c>>

\* json.dump of a character of a string: the quote and the backslash are escaped.
Escaped(c) == IF c \in { Quote, Backslash } THEN <<Backslash, c>> ELSE <<c>>

RECURSIVE DumpString(_)
DumpString(s) == IF s = <<>> THEN <<>> ELSE Escaped(Head(s)) \o DumpString(Tail(s))

RECURSIVE DumpDigits(_)
DumpDigits(n) ==
    IF n < 10 THEN <<DigitChars[n + 1]>>
    ELSE DumpDigits(n \div 10) \o <<DigitChars[(n % 10) + 1]>>

\* json.dump(payload, handle, ensure_ascii=False, indent=2): the characters written.
RECURSIVE json_dump(_)
RECURSIVE DumpItems(_)
RECURSIVE DumpMembers(_, _)
json_dump(v) ==
    CASE v.shape = "none" -> <<"n", "u", "l", "l">>
      [] v.shape = "bool" -> IF v.b THEN <<"t", "r", "u", "e">> ELSE <<"f", "a", "l", "s", "e">>
      [] v.shape = "number" ->
            IF v.n < 0 THEN <<"-">> \o DumpDigits(-v.n) ELSE DumpDigits(v.n)
      [] v.shape = "str" -> <<Quote>> \o DumpString(v.s) \o <<Quote>>
      [] v.shape = "list" ->
            IF v.l = <<>> THEN <<"[", "]">>
            ELSE <<"[", Newline, " ">> \o DumpItems(v.l) \o <<Newline, "]">>
      [] v.shape = "dict" ->
            IF Keys(v) = {} THEN <<"{", "}">>
            ELSE <<"{", Newline, " ">> \o DumpMembers(v, Keys(v)) \o <<Newline, "}">>

DumpItems(items) ==
    IF Len(items) = 1 THEN json_dump(Head(items))
    ELSE json_dump(Head(items)) \o <<",", Newline, " ">> \o DumpItems(Tail(items))

DumpMembers(d, keys) ==
    IF Cardinality(keys) = 1
    THEN <<Quote, CHOOSE k \in keys : TRUE, Quote, ":", " ">>
            \o json_dump(d[CHOOSE k \in keys : TRUE])
    ELSE <<Quote, CHOOSE k \in keys : TRUE, Quote, ":", " ">>
            \o json_dump(d[CHOOSE k \in keys : TRUE])
            \o <<",", Newline, " ">>
            \o DumpMembers(d, keys \ { CHOOSE k \in keys : TRUE })

\* What parsing a piece of text gives: the document and the text after it.
Loaded(value, rest) == [ok |-> TRUE, value |-> value, rest |-> rest]
Malformed == [ok |-> FALSE, value |-> None, rest |-> <<>>]

RECURSIVE SkipWhitespace(_)
SkipWhitespace(cs) ==
    IF cs # <<>> /\ Head(cs) \in JsonWhitespace THEN SkipWhitespace(Tail(cs)) ELSE cs

\* The string whose opening quote has been read, acc being what was read of it.
RECURSIVE LoadString(_, _)
LoadString(cs, acc) ==
    IF cs = <<>> THEN Malformed
    ELSE IF Head(cs) = Quote THEN Loaded(Text(acc), Tail(cs))
    ELSE IF Head(cs) = Backslash
    THEN IF Len(cs) >= 2 /\ cs[2] \in { Quote, Backslash }
         THEN LoadString(Tail(Tail(cs)), Append(acc, cs[2]))
         ELSE Malformed
    ELSE LoadString(Tail(cs), Append(acc, Head(cs)))

IsDigit(c) == \E i \in 1 .. Len(DigitChars) : DigitChars[i] = c
DigitValue(c) == (CHOOSE i \in 1 .. Len(DigitChars) : DigitChars[i] = c) - 1

RECURSIVE LoadDigits(_, _, _)
LoadDigits(cs, sign, n) ==
    IF cs # <<>> /\ IsDigit(Head(cs))
    THEN LoadDigits(Tail(cs), sign, 10 * n + DigitValue(Head(cs)))
    ELSE Loaded(Number(sign * n), cs)

\* json.load: the document at the head of the text.
RECURSIVE LoadValue(_)
RECURSIVE LoadValueAt(_)
RECURSIVE LoadItems(_, _)
RECURSIVE LoadItemsAfter(_, _)
RECURSIVE LoadMembers(_, _)
RECURSIVE LoadMembersAfter(_, _, _)
LoadValue(cs) == LoadValueAt(SkipWhitespace(cs))

LoadValueAt(cs) ==
    IF cs = <<>> THEN Malformed
    ELSE IF StartsWith(cs, <<"n", "u", "l", "l">>) THEN Loaded(None, SubSeq(cs, 5, Len(cs)))
    ELSE IF StartsWith(cs, <<"t", "r", "u", "e">>)
    THEN Loaded(Bool(TRUE), SubSeq(cs, 5, Len(cs)))
    ELSE IF StartsWith(cs, <<"f", "a", "l", "s", "e">>)
    THEN Loaded(Bool(FALSE), SubSeq(cs, 6, Len(cs)))
    ELSE IF Head(cs) = "-"
    THEN IF Len(cs) >= 2 /\ IsDigit(cs[2]) THEN LoadDigits(Tail(cs), -1, 0) ELSE Malformed
    ELSE IF IsDigit(Head(cs)) THEN LoadDigits(cs, 1, 0)
    ELSE IF Head(cs) = Quote THEN LoadString(Tail(cs), <<>>)
    ELSE IF Head(cs) = "["
    THEN IF StartsWith(SkipWhitespace(Tail(cs)), <<"]">>)
         THEN Loaded(List(<<>>), Tail(SkipWhitespace(Tail(cs))))
         ELSE LoadItems(Tail(cs), <<>>)
    ELSE IF Head(cs) = "{"
    THEN IF StartsWith(SkipWhitespace(Tail(cs)), <<"}">>)
         THEN Loaded(EmptyDict, Tail(SkipWhitespace(Tail(cs))))
         ELSE LoadMembers(SkipWhitespace(Tail(cs)), EmptyDict)
    ELSE Malformed

\* The items of an array from the next one on, acc being the items read.
LoadItems(cs, acc) == LoadItemsAfter(LoadValue(cs), acc)

LoadItemsAfter(item, acc) ==
    IF ~item.ok \/ SkipWhitespace(item.rest) = <<>> THEN Malformed
    ELSE IF Head(SkipWhitespace(item.rest)) = ","
    THEN LoadItems(Tail(SkipWhitespace(item.rest)), Append(acc, item.value))
    ELSE IF Head(SkipWhitespace(item.rest)) = "]"
    THEN Loaded(List(Append(acc, item.value)), Tail(SkipWhitespace(item.rest)))
    ELSE Malformed

\* The members of an object from the next one on, d being the object read so
\* far; a key read again replaces the member read before.
LoadMembers(cs, d) ==
    IF Len(cs) >= 4 /\ cs[1] = Quote /\ cs[3] = Quote /\ cs[4] = ":"
    THEN LoadMembersAfter(cs[2], LoadValue(SubSeq(cs, 5, Len(cs))), d)
    ELSE Malformed

LoadMembersAfter(key, item, d) ==
    IF ~item.ok \/ SkipWhitespace(item.rest) = <<>> THEN Malformed
    ELSE IF Head(SkipWhitespace(item.rest)) = ","
    THEN LoadMembers(SkipWhitespace(Tail(SkipWhitespace(item.rest))),
                     (key :> item.value) @@ d)
    ELSE IF Head(SkipWhitespace(item.rest)) = "}"
    THEN Loaded((key :> item.value) @@ d, Tail(SkipWhitespace(item.rest)))
    ELSE Malformed

\* json.load(handle): the document, or json.JSONDecodeError when the text is
\* not one JSON document.
Decoded(r) ==
    IF r.ok /\ SkipWhitespace(r.rest) = <<>> THEN Return(r.value)
    ELSE Raise("JSONDecodeError")

json_load(cs) == Decoded(LoadValue(cs))

\* The cache file holding a text written at time t, as read_json finds it.
Held(loaded, t) ==
    [exists |-> TRUE, kind |-> IF loaded.raised = "" THEN "json" ELSE "garbled",
     doc |-> loaded.value, mtime |-> t]

Stored(text, t) == Held(json_load(text), t)

\* The longest list among the documents written.
MaxItems == 2

\* JSON documents: null, booleans, integers, strings (with characters that
\* json.dump escapes and characters of the JSON syntax), arrays and objects.
JsonAtoms ==
    { None, Bool(TRUE), Bool(FALSE), Number(0), Number(-1), Number(12),
      Text(<<>>), Text(<<"a">>), Text(<<Quote>>), Text(<<Backslash, Quote>>),
      Text(<<"[", ",", " ">>), Text(<<"n", "u", "l", "l">>) }
JsonItems == { None, Bool(TRUE), Number(-1), Text(<<Quote>>), Text(<<"[", ",", " ">>) }
JsonLists == { List(l) : l \in UNION { [1 .. n -> JsonItems] : n \in 0 .. MaxItems } }
JsonDicts ==
    { EmptyDict }
      \cup { [shape |-> "dict", track |-> a] : a \in JsonAtoms }
      \cup { [shape |-> "dict", track |-> a, history |-> List(<<>>)] : a \in JsonAtoms }
      \cup { [shape |-> "dict", track |-> a,
              history |-> List(<< [shape |-> "dict", track |-> a], EmptyDict >>)] :
                a \in JsonAtoms }
JsonPayloads == JsonAtoms \cup JsonLists \cup JsonDicts \cup NowPayloads

InitJson ==
    /\ adapter = "json"
    /\ config = BaseConfig
    /\ clock = 0
    /\ cache = [p \in CacheFiles |-> Absent]
    /\ last = Idle
    /\ lastGood = [p \in CacheFiles |-> None]

\* write_json(path, payload) returns: the file holds the text json.dump wrote.
JsonWrite ==
    /\ adapter = "json"
    /\ \E payload \in JsonPayloads :
        /\ cache' = [cache EXCEPT ![StorePath] = Stored(json_dump(payload), clock)]
        /\ last' = [op |-> "round_trip", step |-> "written", at |-> clock,
                    payload |-> payload, default |-> None, raised |-> "", value |-> None]
    /\ UNCHANGED <<adapter, config, clock, lastGood>>

\* read_json(path, default) right after the write.
JsonRead ==
    /\ adapter = "json"
    /\ last.op = "round_trip" /\ last.step = "written"
    /\ \E default \in Defaults :
       \E r \in { read_json(cache[StorePath], default) } :
            last' = [last EXCEPT !.step = "read", !.default = default,
                                 !.raised = r.raised, !.value = r.value]
    /\ UNCHANGED <<adapter, config, clock, cache, lastGood>>

NextJson == JsonWrite \/ JsonRead

SpecJson == InitJson /\ [][NextJson]_vars

-----------------------------------------------------------------------------
(* now_playing.py: mount selection on its own.  _select_source is applied to *)
(* lists of stream sources whose mounts are written in the ways a server and *)
(* config.yaml write them: a bare name, a path, a URL with scheme and host,  *)
(* with or without a trailing slash, padded with blanks.                     *)

MaxSources == 2

MountKeys == { "mount", "listenurl", "server_url", "url" }

\* A way of writing a mount: an origin (scheme and host, or none), a leading
\* slash or none, the mount's name, a trailing slash or none, padding.  With
\* an origin and no slash after it the text is the origin alone.
Writings ==
    { w \in [origin : { <<>>, <<"h", ":", "/", "/", "x">>,
                        <<"H", ":", "/", "/", "y", ":", "8">> },
             lead : { <<>>, <<"/">> },
             name : { <<>>, <<"a">>, <<"b">> },
             trail : { <<>>, <<"/">> },
             pad : { <<>>, <<" ">> }] :
        /\ (w.origin # <<>> /\ w.lead = <<>>) => (w.name = <<>> /\ w.trail = <<>>)
        /\ w.pad # <<>> => (w.origin = <<>> /\ w.trail = <<>>) }

\* The text of a writing.
MountText(w) == w.pad \o w.origin \o w.lead \o w.name \o w.trail \o w.pad

\* The mount a writing names: none for a blank text, else the path "/name".
Named(w) ==
    IF w.origin \o w.lead \o w.name \o w.trail = <<>> THEN <<>>
    ELSE <<"/">> \o w.name

\* The writings the sources of the payloads use.
SourceWritings ==
    { w \in Writings :
        \/ w.origin = <<>> /\ w.pad = <<>> /\ w.lead \o w.trail # <<"/", "/">>
              /\ w.name \in { <<>>, <<"a">> } /\ (w.name = <<>> => w.lead = w.trail)
        \/ w.origin # <<>> /\ w.name = <<"b">> /\ w.trail = <<>> }

\* A stream source: the writings of its mount under the keys that carry one.
SourceDict(at) ==
    [k \in {"shape"} \cup DOMAIN at |-> IF k = "shape" THEN "dict" ELSE Text(MountText(at[k]))]

\* The sources of the payloads: none of the four keys, a mount written
\* without origin, one of the other keys holding a URL, or a mount and a URL
\* that name different mounts.
SourceMounts ==
    { << >> }
      \cup { [k \in {"mount"} |-> w] : w \in { x \in SourceWritings : x.origin = <<>> } }
      \cup { [k \in {key} |-> w] :
                key \in MountKeys \ {"mount"},
                w \in { x \in SourceWritings : x.origin # <<>> } }
      \cup { [k \in {"mount", "url"} |-> IF k = "mount" THEN wm ELSE wu] :
                wm \in { w \in SourceWritings : Named(w) = <<"/", "a">> /\ w.lead = <<>> },
                wu \in { w \in SourceWritings : Named(w) = <<"/", "b">> /\ Len(w.origin) = 5 } }

RECURSIVE SourceLists(_)
SourceLists(n) ==
    IF n = 0 THEN { <<>> }
    ELSE SourceLists(n - 1)
           \cup { Append(l, m) : l \in { x \in SourceLists(n - 1) : Len(x) = n - 1 },
                                 m \in SourceMounts }

InitMount ==
    /\ adapter = "mount"
    /\ config = BaseConfig
    /\ clock = 0
    /\ cache = [p \in CacheFiles |-> Absent]
    /\ last = Idle
    /\ lastGood = [p \in CacheFiles |-> None]

\* _select_source(sources, mount), called once in a behaviour: the call and
\* what it returned.  The record keeps, beside the arguments, the mounts
\* their writings name.
SelectSource ==
    /\ adapter = "mount"
    /\ last = Idle
    /\ \E l \in SourceLists(MaxSources), w \in Writings :
       \E sources \in { [i \in 1 .. Len(l) |-> SourceDict(l[i])] } :
            last' = [op |-> "_select_source", sources |-> sources,
                     mount |-> MountText(w),
                     names |-> [i \in 1 .. Len(l) |->
                                   { Named(l[i][k]) : k \in DOMAIN l[i] } \ { <<>> }],
                     want |-> Named(w),
                     raised |-> "", value |-> _select_source(sources, MountText(w))]
    /\ UNCHANGED <<adapter, config, clock, cache, lastGood>>

NextMount == SelectSource

SpecMount == InitMount /\ [][NextMount]_vars

-----------------------------------------------------------------------------
(* now_playing.py: the now fields of a record on their own.                  *)
(* _extract_now_payload is applied to records whose title is written from    *)
(* words and separators, with and without track, song, artist and            *)
(* server_name fields.                                                       *)

MaxTitleWords == 3

TitleWords == { <<"A">>, <<"B", "-", "C">> }

\* A title: its words, the separators between them (as places in Separators)
\* and the padding around it.
TitleWritings ==
    UNION { [words : [1 .. n -> TitleWords],
             seps : [1 .. n - 1 -> 1 .. Len(Separators)],
             pad : IF n = 2 THEN { <<>>, <<" ">> } ELSE { <<>> }] :
            n \in 1 .. MaxTitleWords }

\* The words from place i to place j with their separators between them.
RECURSIVE Joined(_, _, _)
Joined(w, i, j) ==
    IF i > j THEN <<>>
    ELSE IF i = j THEN w.words[i]
    ELSE w.words[i] \o Separators[w.seps[i]] \o Joined(w, i + 1, j)

TitleText(w) == w.pad \o Joined(w, 1, Len(w.words)) \o w.pad

\* The fields a record carries beside its title.
TrackFields == { None, Text(<<"T">>), Text(<<" ">>) }
ArtistFields == { None, Text(<<"R">>), Text(<<>>) }
SongFields == { None, Text(<<"S">>) }
ServerNameFields == { None, Text(<<"N">>) }

\* The record with the keys whose value is given.
NowRecord(title, track, song, artist, server_name) ==
    LET given == [title |-> title, track |-> track, song |-> song, artist |-> artist,
                  server_name |-> server_name]
    IN  [k \in {"shape"} \cup { x \in DOMAIN given : given[x] # None } |->
            IF k = "shape" THEN "dict" ELSE given[k]]

InitTitle ==
    /\ adapter = "title"
    /\ config = BaseConfig
    /\ clock = 0
    /\ cache = [p \in CacheFiles |-> Absent]
    /\ last = Idle
    /\ lastGood = [p \in CacheFiles |-> None]

\* _extract_now_payload(record), called once in a behaviour: the record, the
\* writing of its title and what the call returned.
ExtractNow ==
    /\ adapter = "title"
    /\ last = Idle
    /\ \E w \in TitleWritings, track \in TrackFields, song \in SongFields,
          artist \in ArtistFields, server_name \in ServerNameFields :
       \E record \in { NowRecord(Text(TitleText(w)), track, song, artist, server_name) } :
            last' = [op |-> "_extract_now_payload", record |-> record, title |-> w,
                     raised |-> "", value |-> _extract_now_payload(record, <<>>)]
    /\ UNCHANGED <<adapter, config, clock, cache, lastGood>>

NextTitle == ExtractNow

SpecTitle == InitTitle /\ [][NextTitle]_vars

-----------------------------------------------------------------------------
(* status.py: the check of a systemd service on its own.                    *)

\* The states systemctl is-active prints that the table of detail labels knows,
\* and their labels (SYSTEMCTL_DETAIL_LABELS).
SystemctlStates ==
    << <<"a", "c", "t", "i", "v", "e">>,
       <<"a", "c", "t", "i", "v", "a", "t", "i", "n", "g">>,
       <<"r", "e", "l", "o", "a", "d", "i", "n", "g">>,
       <<"i", "n", "a", "c", "t", "i", "v", "e">>,
       <<"f", "a", "i", "l", "e", "d">>,
       <<"d", "e", "a", "c", "t", "i", "v", "a", "t", "i", "n", "g">>,
       <<"u", "n", "k", "n", "o", "w", "n">> >>

SystemctlLabels ==
    << <<"a", "c", "t", "i", "v", "o">>,
       <<"a", "c", "t", "i", "v", "a", "n", "d", "o">>,
       <<"r", "e", "c", "a", "r", "g", "a", "n", "d", "o">>,
       <<"i", "n", "a", "c", "t", "i", "v", "o">>,
       <<"f", "a", "l", "l", "i", "d", "o">>,
       <<"d", "e", "s", "a", "c", "t", "i", "v", "a", "n", "d", "o">>,
       <<"d", "e", "s", "c", "o", "n", "o", "c", "i", "d", "o">> >>

\* Other things systemctl prints: a state in capitals, a state this program
\* does not know, a message.
OtherOutputs ==
    { <<"A", "c", "t", "i", "v", "e">>,
      <<"m", "a", "i", "n", "t", "e", "n", "a", "n", "c", "e">>,
      <<"a", "c", "t", "i", "v", "e", " ", "(", "r", "u", "n", "n", "i", "n", "g", ")">> }

\* What subprocess.run does: it returns the two streams of systemctl, or it
\* raises because the binary is missing, the call timed out, or the call is
\* not permitted.
ServiceOutputs ==
    { SystemctlStates[i] : i \in 1 .. Len(SystemctlStates) } \cup OtherOutputs
ServiceStreams ==
    { <<>> } \cup ServiceOutputs \cup { o \o <<"newline">> : o \in ServiceOutputs }
ErrorStreams ==
    { <<>>, <<"newline">>, <<"f", "a", "i", "l", "e", "d">>, <<"i", "n", "a", "c", "t", "i", "v", "e", "newline">> }
ServiceRuns ==
    [raised : {""}, stdout : ServiceStreams, stderr : ErrorStreams]
      \cup [raised : { "FileNotFoundError", "TimeoutExpired", "PermissionError" },
            stdout : { <<>> }, stderr : { <<>> }]

ServiceNames == { "nginx", "icecast2" }

\* Every state systemctl prints is taken for a running service.
MappedState_all_up(state) == "up"

\* Lines 60-67: the state a printed state is mapped to.
MappedState(state) ==
    IF state = <<"a", "c", "t", "i", "v", "e">> THEN "up"
    ELSE IF state \in { <<"a", "c", "t", "i", "v", "a", "t", "i", "n", "g">>, <<"r", "e", "l", "o", "a", "d", "i", "n", "g">> } THEN "degraded"
    ELSE IF state \in { <<"i", "n", "a", "c", "t", "i", "v", "e">>, <<"f", "a", "i", "l", "e", "d">>,
                        <<"d", "e", "a", "c", "t", "i", "v", "a", "t", "i", "n", "g">> }
    THEN "down"
    ELSE "unknown"

\* Line 69: SYSTEMCTL_DETAIL_LABELS.get(state, state).
DetailLabel(state) ==
    IF \E i \in 1 .. Len(SystemctlStates) : SystemctlStates[i] = state
    THEN SystemctlLabels[CHOOSE i \in 1 .. Len(SystemctlStates) : SystemctlStates[i] = state]
    ELSE state

\* Line 58: stdout, else stderr, else "unknown", each stripped.
PrintedState(run) ==
    IF Strip(run.stdout) # <<>> THEN Strip(run.stdout)
    ELSE IF Strip(run.stderr) # <<>> THEN Strip(run.stderr)
    ELSE <<"u", "n", "k", "n", "o", "w", "n">>

_check_systemd_service(name, run) ==
    IF run.raised = "FileNotFoundError"
    THEN Return([name |-> name, state |-> "unknown",
                 detail |-> <<"s", "y", "s", "t", "e", "m", "c", "t", "l", " ", "n", "o", " ", "d", "i", "s", "p", "o", "n", "i", "b", "l", "e">>])
    ELSE IF run.raised = "TimeoutExpired"
    THEN Return([name |-> name, state |-> "degraded", detail |-> <<"t", "i", "m", "e", "o", "u", "t">>])
    ELSE IF run.raised # "" THEN Raise(run.raised)
    ELSE Return([name |-> name, state |-> MappedState(PrintedState(run)),
                 detail |-> DetailLabel(PrintedState(run))])

InitService ==
    /\ adapter = "service"
    /\ config = BaseConfig
    /\ clock = 0
    /\ cache = [p \in CacheFiles |-> Absent]
    /\ last = Idle
    /\ lastGood = [p \in CacheFiles |-> None]

\* _check_systemd_service(name), called once in a behaviour: what
\* subprocess.run did and what the check raised or returned.
CheckService ==
    /\ adapter = "service"
    /\ last = Idle
    /\ \E name \in ServiceNames, run \in ServiceRuns :
       \E r \in { _check_systemd_service(name, run) } :
            last' = [op |-> "_check_systemd_service", name |-> name, run |-> run,
                     raised |-> r.raised, value |-> r.value]
    /\ UNCHANGED <<adapter, config, clock, cache, lastGood>>

NextService == CheckService

SpecService == InitService /\ [][NextService]_vars

-----------------------------------------------------------------------------
(* build.py: one build after another.  main resolves the four sources in    *)
(* turn and renders the pages; an exception raised by an adapter ends the    *)
(* build, as main catches none.                                              *)

MaxBuilds == 2

\* What an adapter call raised or returned (value, source) and the cache
\* directory after it.
Adapted(out, source, files) ==
    [raised |-> out.raised, value |-> out.value, source |-> source, files |-> files]

\* feeds.py lines 135-163: the items of the resolved payload.
LinksAdapted(files, res) ==
    Adapted(IF res.raised # "" THEN Raise(res.raised) ELSE LinksItems(res.value),
            res.source, [files EXCEPT !["feeds.json"] = res.file])

fetch_links(cfg, files, answers, now) ==
    LinksAdapted(files,
                 fetch_json_with_cache(files["feeds.json"], cfg.feeds_ttl_minutes * MinuteSec,
                                       LinksFetcher(cfg.feeds, answers, now),
                                       Callable(_fallback_items(cfg.feeds, now)), now))

\* The weather payload is cached under the name of the feeds' file.
WeatherAdapted_in_feeds(files, res) ==
    Adapted(IF res.raised # "" THEN Raise(res.raised) ELSE WeatherItem(res.value),
            res.source, [files EXCEPT !["feeds.json"] = res.file])

\* weather.py: the item of the resolved payload.
WeatherAdapted(files, res) ==
    Adapted(IF res.raised # "" THEN Raise(res.raised) ELSE WeatherItem(res.value),
            res.source, [files EXCEPT !["weather.json"] = res.file])

fetch_weather(cfg, files, answer, now) ==
    WeatherAdapted(files,
                   fetch_json_with_cache(files["weather.json"],
                                         cfg.weather_ttl_minutes * MinuteSec,
                                         _fetch_weather(answer, now),
                                         Callable(_fallback_weather(now)), now))

\* status.py lines 256-299: the bundle of the resolved payload; the collector
\* writes status_remote.json when it is called.
StatusAdapted(files, run, res) ==
    Adapted(IF res.raised # "" THEN Raise(res.raised) ELSE StatusBundle(res.value, res.source),
            res.source,
            [files EXCEPT !["status.json"] = res.file,
                          !["status_remote.json"] = IF res.fetches = 1 THEN run.file ELSE @])

StatusCollected(cfg, files, run, now) ==
    StatusAdapted(files, run,
                  fetch_json_with_cache(files["status.json"], StatusTtlSeconds(cfg),
                                        run.fetched, Callable(_fallback_status(now)), now))

fetch_status(cfg, files, probe, local_uptime, service, now) ==
    StatusCollected(cfg, files,
                    _collect_status(cfg, files["status_remote.json"], probe, local_uptime,
                                    service, now),
                    now)

\* The hosts whose now-playing endpoint the pages reach by its path.
PortalHosts ==
    { <<"n", "i", "c", "o", ".", "c", "o", "m", ".", "a", "r">>,
      <<"w", "w", "w", ".", "n", "i", "c", "o", ".", "c", "o", "m", ".", "a", "r">> }

UrlPortal == <<"h", ":", "/", "/", "n", "i", "c", "o", ".", "c", "o", "m", ".", "a", "r", "/", "s">>

\* build.py lines 121-129: the URL the pages poll (the URLs of the model
\* carry no query).
ApiUrlOf(now_source_url, parsed_now_url) ==
    IF /\ parsed_now_url.scheme # <<>> /\ parsed_now_url.netloc # <<>>
       /\ Lower(parsed_now_url.netloc) \in PortalHosts
    THEN IF parsed_now_url.path # <<>> THEN parsed_now_url.path
         ELSE <<"/", "a", "p", "i", "/", "n", "o", "w", "-", "p", "l", "a", "y", "i", "n", "g">>
    ELSE now_source_url

now_api_url(cfg) == ApiUrlOf(Strip(cfg.source_url), urlparse(Strip(cfg.source_url)))

\* Auto-refresh follows the provenance: it is on only for a live resolution.
NowContext_live_only(cfg, now_data) ==
    [track |-> now_data.track, artist |-> now_data.artist, url |-> now_data.url,
     started_at |-> now_data.started_at, available |-> now_data.available,
     live |-> now_data.live,
     refresh_enabled |-> now_data.live /\ StartsWith(now_api_url(cfg), <<"/">>)]

\* build.py lines 130-131: the now data with refresh_enabled.
NowContext(cfg, now_data) ==
    [track |-> now_data.track, artist |-> now_data.artist, url |-> now_data.url,
     started_at |-> now_data.started_at, available |-> now_data.available,
     live |-> now_data.live,
     refresh_enabled |-> StartsWith(now_api_url(cfg), <<"/">>)]

\* The provenance of the status is left out of the context.
DataSources_status_unknown(links_source, weather_source, now_source, status_bundle) ==
    [links |-> links_source, weather |-> weather_source, now |-> now_source,
     status |-> "unknown"]

\* build.py lines 161-166.
DataSources(links_source, weather_source, now_source, status_bundle) ==
    [links |-> links_source, weather |-> weather_source, now |-> now_source,
     status |-> status_bundle.source]

\* The templates main renders, each with base_context and its own keys.
Templates ==
    { "index.html", "notes_index.html", "note_detail.html", "links_index.html",
      "now_index.html", "about_index.html" }

\* build.py lines 148-264: the context of each page.
Contexts(data_sources, now_context, api_url, now_history) ==
    [t \in Templates |->
        [data_sources |-> data_sources, now |-> now_context, now_api_url |-> api_url,
         history |-> IF t = "now_index.html" THEN now_history ELSE <<>>]]

\* config.yaml and feeds.yaml of the builds: no feed or one; local or remote
\* metrics; the now-playing endpoint by a path on the site, on the portal's
\* host, on another host, or the legacy endpoint.
BuildConfigs ==
    { [BaseConfig EXCEPT !.feeds = f, !.metrics_mode = m[1], !.ssh_target = m[2],
                         !.source_url = u[1], !.domain = u[2], !.now_playing_url = u[3],
                         !.now_ttl_minutes = 1, !.feeds_ttl_minutes = t,
                         !.weather_ttl_minutes = t, !.status_ttl_minutes = t] :
        f \in { <<>>, <<"blog">> }, t \in { 0, 1 },
        m \in { <<"local", "">>, <<"remote_ssh", "pi@host">> },
        u \in { <<UrlRelative, SiteDomain, <<>> >>, <<UrlPortal, <<>>, <<>> >>,
                <<UrlAbsolute, <<>>, <<>> >>, << <<>>, <<>>, UrlAbsolute>> } }

\* What the endpoints answer during the builds.
BuildWeatherAnswers == { [raised |-> "Timeout", code |-> 0], [raised |-> "", code |-> 0] }
BuildProbeAnswers == { [ok |-> FALSE, uptime |-> None], [ok |-> TRUE, uptime |-> Number(200)] }
BuildNowAnswers ==
    { [raised |-> "Timeout", payload |-> None] }
      \cup [raised : {""}, payload : { Playing, Silent, Undated }]

\* The record of a build that has just started.
Started(n) ==
    [op |-> "build", build |-> n, step |-> "start", raised |-> "",
     links_source |-> "", weather_source |-> "", status_source |-> "",
     status_bundle |-> None, now_source |-> <<>>, now_data |-> None,
     now_history |-> <<>>, pages |-> <<>>]

\* The build after a step: ended when the adapter raised.
Stepped(build, step, r, returned) ==
    IF r.raised # "" THEN [build EXCEPT !.step = "aborted", !.raised = r.raised]
    ELSE [returned EXCEPT !.step = step]

InitBuild ==
    /\ adapter = "build"
    /\ config \in BuildConfigs
    /\ clock = 0
    /\ cache = [p \in CacheFiles |-> Absent]
    /\ last = Started(1)
    /\ lastGood = [p \in CacheFiles |-> None]

\* build.py lines 105-110.
ResolveLinks ==
    /\ adapter = "build"
    /\ last.step = "start"
    /\ \E answers \in [1 .. Len(config.feeds) -> FeedAnswers] :
       \E r \in { fetch_links(config, cache, answers, clock) } :
            /\ cache' = r.files
            /\ last' = Stepped(last, "links", r, [last EXCEPT !.links_source = r.source])
    /\ UNCHANGED <<adapter, config, clock, lastGood>>

\* build.py line 111.
ResolveWeather ==
    /\ adapter = "build"
    /\ last.step = "links"
    /\ \E answer \in BuildWeatherAnswers :
       \E r \in { fetch_weather(config, cache, answer, clock) } :
            /\ cache' = r.files
            /\ last' = Stepped(last, "weather", r, [last EXCEPT !.weather_source = r.source])
    /\ UNCHANGED <<adapter, config, clock, lastGood>>

\* build.py line 112: the provenance fetch_status returns is not kept, the
\* bundle is.
ResolveStatus ==
    /\ adapter = "build"
    /\ last.step = "weather"
    /\ \E probe \in BuildProbeAnswers, service \in ServiceAnswers :
       \E r \in { fetch_status(config, cache, probe, Number(100), service, clock) } :
            /\ cache' = r.files
            /\ last' = Stepped(last, "status", r,
                               [last EXCEPT !.status_source = r.source,
                                            !.status_bundle = r.value])
    /\ UNCHANGED <<adapter, config, clock, lastGood>>

\* build.py line 113.
ResolveNow ==
    /\ adapter = "build"
    /\ last.step = "status"
    /\ \E answer \in BuildNowAnswers :
       \E r \in { fetch_now(config, cache, answer, NoHistoryAnswer, clock) } :
            /\ cache' = r.files
            /\ last' = Stepped(last, "now", r,
                               [last EXCEPT !.now_source = r.source, !.now_data = r.value,
                                            !.now_history = r.history])
    /\ UNCHANGED <<adapter, config, clock, lastGood>>

\* build.py lines 115-275: the contexts of the pages.
Render ==
    /\ adapter = "build"
    /\ last.step = "now"
    /\ last' = [last EXCEPT
                    !.step = "rendered",
                    !.pages = Contexts(DataSources(last.links_source, last.weather_source,
                                                   last.now_source, last.status_bundle),
                                       NowContext(config, last.now_data),
                                       now_api_url(config), last.now_history)]
    /\ UNCHANGED <<adapter, config, clock, cache, lastGood>>

\* The next build starts, at once or later.
NextBuild ==
    /\ adapter = "build"
    /\ last.step \in { "rendered", "aborted" }
    /\ last.build < MaxBuilds
    /\ \E t \in Instants : t >= clock /\ clock' = t
    /\ last' = Started(last.build + 1)
    /\ UNCHANGED <<adapter, config, cache, lastGood>>

NextOfBuilds ==
    ResolveLinks \/ ResolveWeather \/ ResolveStatus \/ ResolveNow \/ Render \/ NextBuild

SpecBuild == InitBuild /\ [][NextOfBuilds]_vars

-----------------------------------------------------------------------------
(* The cached fetch protocol: properties of the resolutions of a call.      *)

\* The resolutions the last adapter call made.
Calls == { last.calls[i] : i \in 1 .. Len(last.calls) }

\* Resolutions made by fetch_json_with_cache; the others are made by the
\* ladder of the now-playing source endpoint.
ViaResolve(c) == c.path # "now_source.json"

\* A cache entry: the file is there and holds a JSON document other than null
\* (read_json hands null back as the default, so the protocol cannot tell a
\* file holding null from no file).
Entry(f) == f.exists /\ f.kind = "json" /\ f.doc # None

\* The entry a resolution found was fresh when the call was made.
Fresh(c) == Entry(c.pre) /\ c.ttl_seconds > 0 /\ last.at - c.pre.mtime <= c.ttl_seconds

C2_LiveFetchPersisted ==
    \A c \in Calls :
        (ViaResolve(c) /\ ~Fresh(c) /\ c.fetched.raised = "")
            => /\ c.raised = ""
               /\ c.fetches = 1
               /\ c.value = c.fetched.value
               /\ c.source = "live"
               /\ c.post.exists
               /\ c.post.kind = "json"
               /\ c.post.doc = c.fetched.value
               /\ c.post.mtime = last.at
               /\ cache[c.path] = c.post

\* A live payload replaced an expired entry holding another payload.
C2_Witness ==
    \E c \in Calls :
        /\ ViaResolve(c)
        /\ Entry(c.pre)
        /\ ~Fresh(c)
        /\ c.fetched.raised = ""
        /\ c.fetched.value # c.pre.doc
        /\ c.source = "live"

C4_FallbackWithoutCache ==
    \A c \in Calls :
        (ViaResolve(c) /\ ~Entry(c.pre) /\ c.fetched.raised # "")
            => /\ c.raised = ""
               /\ c.value = c.fallback.value
               /\ c.source = "fallback"
               /\ c.fallbacks = (IF c.fallback.callable THEN 1 ELSE 0)
               /\ c.post = c.pre
               /\ cache[c.path] = c.pre

\* The fetcher raised with no cache file, and there is none afterwards.
C4_Witness ==
    \E c \in Calls :
        /\ ViaResolve(c)
        /\ ~c.pre.exists
        /\ c.fetched.raised # ""
        /\ c.source = "fallback"
        /\ ~cache[c.path].exists

\* The cache files of the protocol (status_remote.json is the status
\* collector's own file).
ProtocolFiles == CacheFiles \ { "status_remote.json" }

\* C5: a resolution changes a cache file only by overwriting it after a
\* successful fetch and never deletes it: after any sequence of builds a cache
\* file, if present, holds the payload of the most recent successful fetch of
\* its source, however old the file is.
C5_CacheHoldsLastGood ==
    /\ \A p \in ProtocolFiles :
        /\ cache[p].exists => cache[p].kind = "json" /\ cache[p].doc = lastGood[p]
        /\ lastGood[p] # None => cache[p].exists
    /\ \A c \in Calls :
        /\ c.pre.exists => c.post.exists
        /\ c.post # c.pre => c.fetches = 1 /\ c.fetched.raised = "" /\ c.post.doc = c.fetched.value

\* A failed fetch left an entry older than its TTL as it was.
C5_Witness ==
    \E c \in Calls :
        /\ Entry(c.pre)
        /\ last.at - c.pre.mtime > c.ttl_seconds
        /\ c.ttl_seconds > 0
        /\ c.fetches = 1
        /\ c.fetched.raised # ""
        /\ cache[c.path] = c.pre
        /\ lastGood[c.path] = c.pre.doc

\* C6: fetch_links, fetch_weather, fetch_status and fetch_now return a result
\* to build.main and raise nothing, whatever the fetch outcome and the state
\* of the cache.
C6_NoAdapterRaises == last.raised = ""

-----------------------------------------------------------------------------
(* The cache store: properties of read_json, is_cache_fresh and write_json. *)

\* C8: is_cache_fresh is false whenever ttl_seconds <= 0, whatever the age
\* of the file, and whenever the file is absent; otherwise it is true exactly
\* when now minus the file's modification time is at most ttl_seconds, so a
\* file exactly ttl_seconds old is fresh.
C8_FreshnessRule ==
    last.op = "is_cache_fresh"
        => LET f == cache[StorePath]
           IN  /\ last.raised = ""
               /\ (last.ttl_seconds <= 0 \/ ~f.exists) => last.value = Bool(FALSE)
               /\ (last.ttl_seconds > 0 /\ f.exists)
                    => last.value = Bool(last.at - f.mtime <= last.ttl_seconds)

\* A file exactly ttl_seconds old was found fresh.
C8_Witness ==
    /\ last.op = "is_cache_fresh"
    /\ cache[StorePath].exists
    /\ last.ttl_seconds > 0
    /\ last.at - cache[StorePath].mtime = last.ttl_seconds
    /\ last.value = Bool(TRUE)

\* C9: read_json raises nothing: on a missing file and on a file whose
\* content is malformed, of whatever kind, it returns the default.
C9_ReadNeverRaises ==
    last.op = "read_json"
        => /\ last.raised = ""
           /\ (~cache[StorePath].exists \/ cache[StorePath].kind # "json")
                => last.value = last.default

\* C10: from the call of write_json on, also after a write that failed
\* part-way, a read of the path returns the complete document the file held
\* before or the complete new document, and nothing else.
C10_WriteAtomic ==
    (last.op = "write_json" /\ last.read.made)
        => /\ last.read.raised = ""
           /\ last.read.value \in { last.previous.doc, last.payload }

\* C11: write_json(path, payload) followed at once by read_json(path) returns
\* a value equal to payload, for every JSON document payload: the file then
\* holds exactly the document (which is what write_json stands for in the
\* other specifications).
C11_RoundTrip ==
    last.op = "round_trip"
        => /\ cache[StorePath] = write_json(last.payload, last.at)
           /\ last.step = "read" => last.raised = "" /\ last.value = last.payload

\* An object holding a string with an escaped character and a list was read
\* back, with a default that differs from it.
C11_Witness ==
    /\ last.op = "round_trip"
    /\ last.step = "read"
    /\ last.payload = [shape |-> "dict", track |-> Text(<<Backslash, Quote>>),
                       history |-> List(<< [shape |-> "dict",
                                            track |-> Text(<<Backslash, Quote>>)],
                                           EmptyDict >>)]
    /\ last.default = EmptyDict
    /\ last.value = last.payload

-----------------------------------------------------------------------------
(* Now playing: properties of fetch_now.                                    *)

\* The resolutions the ladder of the source endpoint made in the last call.
SourceCalls == { c \in Calls : c.path = "now_source.json" }

\* The mount the last call selected sources with.
CallMount == Strip(config.mount)

\* The track of the now item a payload parses to is empty or a silence
\* sentinel, whatever its case (the payload being a dict that does not say
\* success: false).
SilentTrack(payload) ==
    /\ payload.shape = "dict"
    /\ Get(payload, "success") # Bool(FALSE)
    /\ \E now_payload \in { SourceNowPayload(payload,
                                             _select_source(_extract_sources(payload),
                                                            CallMount),
                                             <<>>) } :
            /\ now_payload # None
            /\ Lower(Strip(now_payload.track)) \in SilenceSentinels \cup { <<>> }

\* The result of the last call is the track of the cached payload doc, not live.
ServesTrackOf(doc) ==
    /\ last.raised = ""
    /\ last.value.available
    /\ ~last.value.live
    /\ last.value.track = _parse_source_payload(doc, CallMount).now.track
    /\ last.history = <<>>

\* The result of the last call is the unavailable state.
Unavailable ==
    /\ last.raised = ""
    /\ last.value = _unavailable_now
    /\ last.history = <<>>

\* C12: on the source endpoint, a live-fetched payload whose parsed track is
\* empty or a silence sentinel is not written to now_source.json; the result
\* is the cached track with provenance "stale" when there is a cache entry,
\* else the unavailable state.
C12_SilenceRejected ==
    \A c \in SourceCalls :
        (c.fetches = 1 /\ c.fetched.raised = "" /\ SilentTrack(c.fetched.value))
            => /\ c.post = c.pre
               /\ cache[c.path] = c.pre
               /\ IF Entry(c.pre)
                  THEN /\ c.source = "stale"
                       /\ last.source = <<"stale", "disabled">>
                       /\ ServesTrackOf(c.pre.doc)
                  ELSE /\ last.source = <<"unavailable">>
                       /\ Unavailable

\* The resolutions of the now endpoint (source or legacy) in the last call.
NowCalls == { c \in Calls : c.path \in { "now_source.json", "now_playing.json" } }

\* The payload parses to no playable now item (the legacy endpoints parse
\* with an empty mount, and a payload that is not a dict as {}).
FailsGate(payload, path) ==
    _parse_source_payload(IF payload.shape = "dict" THEN payload ELSE EmptyDict,
                          IF path = "now_source.json" THEN CallMount ELSE <<>>).now = None

\* C13: on the source endpoint and on the legacy endpoints alike, a fetched
\* payload that fails the playable-track gate is handled as a failed fetch:
\* the cache file is left as it was, a cached playable track is served with
\* provenance "stale", and only with no cache is the result unavailable.
C13_GateFailureIsFetchFailure ==
    \A c \in NowCalls :
        (c.fetches = 1 /\ c.fetched.raised = "" /\ FailsGate(c.fetched.value, c.path))
            => /\ c.post = c.pre
               /\ cache[c.path] = c.pre
               /\ IF Entry(c.pre) /\ ~FailsGate(c.pre.doc, c.path)
                  THEN /\ c.source = "stale"
                       /\ ServesTrackOf(c.pre.doc)
                  ELSE Unavailable

\* What C13 says of the legacy endpoints alone.
C13_LegacyGate ==
    \A c \in NowCalls :
        (c.path = "now_playing.json" /\ c.fetches = 1 /\ c.fetched.raised = ""
            /\ FailsGate(c.fetched.value, c.path))
            => /\ c.post = c.pre
               /\ Entry(c.pre) /\ ~FailsGate(c.pre.doc, c.path) => c.source = "stale"

\* C14: the gate also runs when a fresh cache is used: a fresh cached payload
\* that parses to no playable track is not reported as a track; the result is
\* the unavailable state (available false, live false, no history).
C14_GateOnFreshCache ==
    \A c \in NowCalls :
        (c.fetches = 0 /\ c.source = "cache" /\ FailsGate(c.pre.doc, c.path))
            => /\ Unavailable
               /\ ~last.value.available
               /\ ~last.value.live

\* On the source endpoint a fresh cached payload whose selected mount is
\* silent was found, after the configured mount changed.
C14_Witness ==
    /\ config.mount = MountB
    /\ \E c \in SourceCalls :
        /\ c.fetches = 0
        /\ c.source = "cache"
        /\ c.pre.doc = Mounted
        /\ FailsGate(c.pre.doc, c.path)
        /\ Unavailable

\* C15: a result of fetch_now has live = true only when the payload it was
\* built from was fetched from the network in this call (provenance "live");
\* a result built from a fresh cache, a stale cache, a local cache file or a
\* fallback has live = false.
C15_LiveOnlyWhenFetched ==
    (last.op = "fetch_now" /\ last.raised = "")
        => /\ last.value.live
                => \E c \in NowCalls :
                        /\ c.source = "live"
                        /\ c.fetches = 1
                        /\ c.fetched.raised = ""
                        /\ c.value = c.fetched.value
           /\ (\A c \in NowCalls : c.source # "live") => ~last.value.live

\* A playable payload fetched in this call was returned live.
C15_Witness ==
    /\ last.op = "fetch_now"
    /\ last.raised = ""
    /\ last.value.live
    /\ last.value.available
    /\ \E c \in NowCalls : c.source = "live" /\ c.fetched.value = Playing

\* A playable payload served from a stale cache was returned, not live.
C15_WitnessStale ==
    /\ last.op = "fetch_now"
    /\ last.raised = ""
    /\ last.value.available
    /\ ~last.value.live
    /\ \E c \in NowCalls : c.source = "stale"

\* C16: whenever the result of fetch_now is not live (cache, stale cache or
\* local file), the history returned is empty, even when the payload used
\* holds history entries; history comes only with a live result.
C16_NoHistoryUnlessLive ==
    (last.op = "fetch_now" /\ last.raised = "")
        => /\ ~last.value.live => last.history = <<>>
           /\ last.history # <<>> => last.value.live /\ (\E c \in NowCalls : c.source = "live")

\* A cached payload holding a history entry was served from the cache, its
\* track returned and its history left out.
C16_Witness ==
    /\ last.op = "fetch_now"
    /\ last.raised = ""
    /\ last.value.available
    /\ ~last.value.live
    /\ last.history = <<>>
    /\ \E c \in NowCalls :
        /\ c.source \in { "cache", "stale" }
        /\ c.value = Playing
        /\ _parse_source_payload(c.value, <<>>).history # <<>>

\* The cache file of the now endpoint under the configuration of the last call.
NowPath == IF Strip(config.source_url) # <<>> THEN "now_source.json" ELSE "now_playing.json"

\* The cache file of the now endpoint held a playable payload when the last
\* call was made.
PlayableCached ==
    \E f \in { c.pre : c \in NowCalls } \cup (IF NowCalls = {} THEN { cache[NowPath] } ELSE {}) :
        Entry(f) /\ ~FailsGate(f.doc, NowPath)

\* The last call fetched a playable payload.
PlayableFetched ==
    \E c \in NowCalls :
        c.fetches = 1 /\ c.fetched.raised = "" /\ ~FailsGate(c.fetched.value, c.path)

\* C17: fetch_now returns available = false only when neither the fetch nor a
\* cached payload gives a playable track: with a playable payload fetched, or
\* a playable payload in the cache, the result has available = true.
C17_UnavailableOnlyWithoutTrack ==
    (last.op = "fetch_now" /\ last.raised = "" /\ ~last.value.available)
        => ~PlayableFetched /\ ~PlayableCached

\* now_playing.source_url is relative and site.domain is unset or blank.
Unresolvable ==
    /\ StartsWith(Strip(config.source_url), <<"/">>)
    /\ Strip(config.domain) = <<>>

Unconfigured ==
    /\ Strip(config.source_url) = <<>>
    /\ Strip(config.now_playing_url) = <<>>

\* C19: when no now-playing URL is configured, fetch_now returns the
\* unavailable state (available = false), whatever cache files exist.
C19_UnconfiguredIsUnavailable ==
    (Unconfigured /\ last.op = "fetch_now")
        => last.raised = "" /\ ~last.value.available

-----------------------------------------------------------------------------
(* Now playing: mount selection.                                             *)

\* The sources of the last selection that carry the mount asked for: each of
\* them when no mount is asked for.
Carrying ==
    { i \in 1 .. Len(last.sources) : last.want = <<>> \/ last.want \in last.names[i] }

\* C20: _select_source returns the first source one of whose mount, listenurl,
\* server_url or url values names the configured mount, however the two are
\* written (with or without scheme and host, leading slash, trailing slash);
\* when no source does it returns the first source; with an empty configured
\* mount every source matches and the first one is returned.
C20_MountSelection ==
    last.op = "_select_source"
        => /\ last.raised = ""
           /\ last.value = IF last.sources = <<>> THEN None
                           ELSE IF Carrying = {} THEN last.sources[1]
                           ELSE last.sources[CHOOSE i \in Carrying :
                                                \A j \in Carrying : i <= j]
           /\ (last.want = <<>> /\ last.sources # <<>>) => last.value = last.sources[1]

\* The second source was selected: its listen URL, written with scheme and
\* host, names the mount that the configuration writes as a bare name with a
\* trailing slash, and the first source names another mount.
C20_Witness ==
    /\ last.op = "_select_source"
    /\ last.mount = <<"b", "/">>
    /\ Len(last.sources) = 2
    /\ last.names[1] = { <<"/", "a">> }
    /\ last.sources[2] = [shape |-> "dict", listenurl |-> Text(<<"h", ":", "/", "/", "x", "/", "b">>)]
    /\ last.value = last.sources[2]

-----------------------------------------------------------------------------
(* Now playing: title splitting.                                             *)

\* The place of the separator a title is to be split at: the first of the
\* separators of highest priority in it (0 when it has none).
SplitAt(w) ==
    IF Len(w.words) = 1 THEN 0
    ELSE CHOOSE k \in 1 .. Len(w.seps) :
            /\ \A j \in 1 .. Len(w.seps) : w.seps[k] <= w.seps[j]
            /\ \A j \in 1 .. k - 1 : w.seps[j] # w.seps[k]

\* A field of the last record is missing: absent or blank.
FieldMissing(key) == _clean_text(Get(last.record, key)) = <<>>

\* The artist and the track a record gives beside its title: the artist or
\* else the server_name field, the track or else the song field.
GivenArtist == _clean_text(Or(Get(last.record, "artist"), Get(last.record, "server_name")))
GivenTrack == _clean_text(Or(Get(last.record, "track"), Get(last.record, "song")))

-----------------------------------------------------------------------------
(* Status: properties of fetch_status.                                       *)

\* The last call was fetch_status in remote_ssh metrics mode.
RemoteStatus == last.op = "fetch_status" /\ config.metrics_mode = "remote_ssh"

\* C22: in remote_ssh metrics mode fetch_status bypasses the cache TTL: on
\* every build the status collector is invoked (with a target configured the
\* SSH probe is run) and the provenance is never "cache", whatever
\* status_ttl_minutes is and however recent status.json is.
C22_RemoteBypassesTtl ==
    RemoteStatus
        => /\ last.source # "cache"
           /\ Len(last.calls) = 1
           /\ \A c \in Calls : c.fetches = 1 /\ c.source # "cache"
           /\ config.ssh_target # "" => last.probed

\* The collector ran although status.json was written at this very instant and
\* status_ttl_minutes is 1.
C22_Witness ==
    /\ RemoteStatus
    /\ config.status_ttl_minutes = 1
    /\ \E c \in Calls : Entry(c.pre) /\ c.pre.mtime = last.at /\ c.fetches = 1
    /\ last.probed

\* The resolutions of the last call, made in remote_ssh mode, whose collector
\* returned after the SSH probe had failed or had not been run for want of a
\* target: the collector marks only a successful probe "remote_ssh".
FailedProbes ==
    { c \in Calls : /\ RemoteStatus
                    /\ c.fetched.raised = ""
                    /\ c.fetched.value.metrics_source # "remote_ssh" }

\* The metrics of a resolution are the last remote reading, marked stale.
FromRemoteCache(c) ==
    /\ c.fetched.value.metrics_source = "remote_cache"
    /\ c.fetched.value.metrics_stale
    /\ c.fetched.value.uptime_seconds = cache["status_remote.json"].doc.uptime_seconds

\* The metrics of a resolution are marked as the local fallback.
FromLocalFallback(c) ==
    /\ c.fetched.value.metrics_source = "local_fallback"
    /\ c.fetched.value.metrics_stale

\* fetch_status returned the metrics its collector gave.
MetricsReturned(c) ==
    /\ last.raised = ""
    /\ last.value.metrics_source = c.fetched.value.metrics_source
    /\ last.value.metrics_stale = c.fetched.value.metrics_stale
    /\ last.value.uptime_seconds = c.fetched.value.uptime_seconds

\* C23 as stated: in remote_ssh mode, when the SSH probe fails, the metrics
\* are the last cached remote reading with metrics_stale = true and
\* metrics_source = "remote_cache" if such a reading exists; the local metrics
\* with metrics_source = "local_fallback" are used only when none exists.
C23_AsStated ==
    \A c \in FailedProbes :
        /\ MetricsReturned(c)
        /\ IF Entry(cache["status_remote.json"])
           THEN FromRemoteCache(c) ELSE FromLocalFallback(c)

\* C23: in remote_ssh mode with allow_fallback_cache on, when the SSH probe
\* fails, the metrics are the last cached remote reading with metrics_stale =
\* true and metrics_source = "remote_cache" if such a reading exists; the
\* local metrics with metrics_source = "local_fallback" are used when none
\* exists or allow_fallback_cache is off.
C23_FailedProbeFallsBack ==
    \A c \in FailedProbes :
        /\ MetricsReturned(c)
        /\ IF config.allow_fallback_cache /\ Entry(cache["status_remote.json"])
           THEN FromRemoteCache(c) ELSE FromLocalFallback(c)

\* The probe was run and failed, and the reading of an earlier probe was
\* returned as stale.
C23_Witness ==
    /\ last.probed
    /\ \E c \in FailedProbes : FromRemoteCache(c) /\ MetricsReturned(c)
    /\ last.value.uptime_seconds \in RemoteUptimes

\* C24: in every result of fetch_status metrics_stale is true whenever the
\* metrics were not read in this build by a fresh local read or a successful
\* SSH probe: whenever metrics_source is remote_cache, local_fallback or
\* fallback, or the payload is served from status.json with provenance
\* "stale", or is the fallback.
C24_StaleMetricsMarked ==
    (/\ last.op = "fetch_status"
     /\ last.raised = ""
     /\ \/ last.value.metrics_source \in { "remote_cache", "local_fallback", "fallback" }
        \/ last.source \in { "stale", "fallback" })
        => last.value.metrics_stale

-----------------------------------------------------------------------------
(* Status: the state of a service.                                           *)

\* What systemctl printed in the last check: its standard output without the
\* blanks around it, or the standard error when that is empty.
Printed ==
    IF Strip(last.run.stdout) # <<>> THEN Strip(last.run.stdout) ELSE Strip(last.run.stderr)

ServiceStates == { "up", "degraded", "down", "unknown" }

\* C25: the mapping of a service check is total and deterministic: systemctl
\* printing active gives up; activating or reloading degraded; inactive,
\* failed or deactivating down; anything else unknown; a missing systemctl
\* binary gives unknown and a timeout degraded; the state is always one of
\* up, degraded, down, unknown.
C25_ServiceStateMapping ==
    (last.op = "_check_systemd_service"
        /\ last.run.raised \in { "", "FileNotFoundError", "TimeoutExpired" })
        => /\ last.raised = ""
           /\ last.value.name = last.name
           /\ last.value.state \in ServiceStates
           /\ last.value.state =
                CASE last.run.raised = "FileNotFoundError" -> "unknown"
                  [] last.run.raised = "TimeoutExpired" -> "degraded"
                  [] OTHER ->
                        IF Printed = SystemctlStates[1] THEN "up"
                        ELSE IF Printed \in { SystemctlStates[2], SystemctlStates[3] }
                        THEN "degraded"
                        ELSE IF Printed \in { SystemctlStates[4], SystemctlStates[5],
                                              SystemctlStates[6] }
                        THEN "down"
                        ELSE "unknown"

\* systemctl printed "activating" and a line end, and the service is degraded.
C25_Witness ==
    /\ last.op = "_check_systemd_service"
    /\ last.run.raised = ""
    /\ last.run.stdout = SystemctlStates[2] \o <<"newline">>
    /\ last.value.state = "degraded"

-----------------------------------------------------------------------------
(* Feeds: properties of fetch_links.                                         *)

\* The feeds of the last call that answered, in the order of feeds.yaml.
Succeeded == { i \in 1 .. Len(last.answers) : last.answers[i].raised = "" }

\* The last call fetched, and some but not all of its feeds raised.
PartlyFailed ==
    /\ last.op = "fetch_links"
    /\ \A c \in Calls : c.fetches = 1
    /\ Succeeded # {}
    /\ Succeeded # 1 .. Len(last.answers)

\* The entries the feeds that answered gave, as items.
EntriesOf(i) ==
    { [source |-> config.feeds[i], published |-> last.answers[i].entries[k]] :
        k \in 1 .. Len(last.answers[i].entries) }

\* How many entries the feeds that answered gave.
RECURSIVE EntryCount(_)
EntryCount(feeds) ==
    IF feeds = {} THEN 0
    ELSE LET i == CHOOSE x \in feeds : TRUE
         IN  Len(last.answers[i].entries) + EntryCount(feeds \ {i})

\* C26: when some but not all configured feeds raise, fetch_links still
\* returns the entries of every feed that succeeded, ordered by published
\* time descending and capped at the limit, with provenance "live".
C26_PartialBatchReturned ==
    PartlyFailed
        => /\ last.raised = ""
           /\ last.source = "live"
           /\ Len(last.value) = IF EntryCount(Succeeded) <= Limit
                                THEN EntryCount(Succeeded) ELSE Limit
           /\ \A k \in 1 .. Len(last.value) :
                \E i \in Succeeded : last.value[k] \in EntriesOf(i)
           /\ EntryCount(Succeeded) <= Limit
                => \A i \in Succeeded : \A e \in EntriesOf(i) :
                        \E k \in 1 .. Len(last.value) : last.value[k] = e
           /\ \A k \in 1 .. Len(last.value) - 1 :
                last.value[k].published >= last.value[k + 1].published

-----------------------------------------------------------------------------
(* The build: what main hands to the pages.                                  *)

\* The last build rendered its pages.
Rendered == last.op = "build" /\ last.step = "rendered"

\* C27: for each of the four sources the provenance its adapter returned in
\* this build is the value under data_sources in the context of every page
\* main renders.
C27_ProvenanceSurfaced ==
    Rendered
        => \A t \in Templates :
            /\ last.pages[t].data_sources.links = last.links_source
            /\ last.pages[t].data_sources.weather = last.weather_source
            /\ last.pages[t].data_sources.now = last.now_source
            /\ last.pages[t].data_sources.status = last.status_source

\* The pages of a second build show a fallback for the links, a live forecast,
\* a stale status and a stale track.
C27_Witness ==
    /\ Rendered
    /\ last.build = 2
    /\ last.pages["about_index.html"].data_sources =
            [links |-> "fallback", weather |-> "live", now |-> <<"stale", "disabled">>,
             status |-> "stale"]

\* The now-playing resolution of the last build is not live: its payload came
\* from the cache, fresh or stale.
NotLive == Rendered /\ last.now_source # <<>> /\ last.now_source[1] \in { "cache", "stale" }

\* C28: when the now-playing resolution has cache or stale provenance, the
\* result still reports the last known track (available = true) and the now
\* data handed to the templates does not enable auto-refresh.
C28_NoRefreshUnlessLive ==
    NotLive
        => \A t \in Templates :
            /\ last.pages[t].now.available
            /\ ~last.pages[t].now.live
            /\ ~last.pages[t].now.refresh_enabled

\* ---- C29 ----
\* A call of fetch_now that went to the source endpoint and returned.
SourceResolution ==
    /\ last.op = "fetch_now"
    /\ last.raised = ""
    /\ \/ last.calls = <<>> /\ last.source = <<"unavailable">>
       \/ last.calls # <<>> /\ last.calls[1].path = "now_source.json"

FetchAttempted == SourceResolution /\ last.calls # <<>> /\ last.calls[1].fetches = 1

Logged(line) == \E i \in DOMAIN last.log : last.log[i] = line

LoggedAt(i, line) == i \in DOMAIN last.log /\ last.log[i] = line

BranchLines ==
    { "using_fresh_cache=true", "using_last_known_good_cache=true",
      "no_last_known_good_cache=true", "source_url_unresolved=true" }

\* What the endpoint did in the attempted fetch: the exception of the request,
\* or "" when a body was parsed.
Answered == last.calls[1].fetched.raised

\* C29 as stated: every resolution that attempts a fetch logs the request URL,
\* then the HTTP status, then the outcome of the JSON parse, and every
\* resolution logs the branch of the ladder its result comes from.
C29_AsStated ==
    /\ FetchAttempted
            => /\ LoggedAt(1, "request_url")
               /\ LoggedAt(2, "status_code")
               /\ LoggedAt(3, "json_parse=true") \/ LoggedAt(3, "json_parse=false")
    /\ SourceResolution => \E line \in BranchLines : Logged(line)

\* C29: a resolution of the source endpoint logs the request URL first exactly
\* when it attempts a fetch, the HTTP status second exactly when the request
\* got a response, and the outcome of the JSON parse third exactly when the
\* status was not an error; a result from the fresh cache, from the last known
\* good cache or without any cache logs the line of its branch, and a result
\* from the live fetch logs none of them after a parsed body.
C29_DiagnosticLog ==
    SourceResolution
        => /\ Logged("request_url") <=> FetchAttempted
           /\ FetchAttempted
                => /\ LoggedAt(1, "request_url")
                   /\ Logged("status_code") <=> Answered \notin { "ConnectionError", "Timeout" }
                   /\ Logged("status_code") => LoggedAt(2, "status_code")
                   /\ Logged("json_parse=true") <=> Answered = ""
                   /\ Logged("json_parse=false") <=> Answered = "ValueError"
                   /\ Logged("json_parse=true") => LoggedAt(3, "json_parse=true")
                   /\ Logged("json_parse=false") => LoggedAt(3, "json_parse=false")
           /\ Logged("using_fresh_cache=true") <=> last.source[1] = "cache"
           /\ Logged("using_last_known_good_cache=true") <=> last.source[1] = "stale"
           /\ \/ Logged("no_last_known_good_cache=true")
              \/ Logged("source_url_unresolved=true")
                <=> last.source = <<"unavailable">>
           /\ last.source[1] = "live"
                => /\ \A line \in BranchLines \cup { "live_fetch_error" } : ~Logged(line)
                   /\ Logged("json_parse=true")

\* A fetch the endpoint answered with an error status, resolved from the last
\* known good cache.
C29_Witness ==
    /\ FetchAttempted
    /\ Answered = "HTTPError"
    /\ last.source[1] = "stale"
    /\ last.log = <<"request_url", "status_code", "live_fetch_error",
                    "using_last_known_good_cache=true">>

\* ---- C30 ----
\* The cache files of the source that is resolved after the given step.
OwnFiles(step) ==
    CASE step = "start" -> { "feeds.json" }
      [] step = "links" -> { "weather.json" }
      [] step = "weather" -> { "status.json", "status_remote.json" }
      [] step = "status" -> { "now_source.json", "now_playing.json", "now_history.json" }
      [] OTHER -> {}

\* The cache directory with nothing but the given files in it.
Only(own) == [p \in CacheFiles |-> IF p \in own THEN cache[p] ELSE Absent]

\* The step from one position of main to the next.
InOrder ==
    \/ last'.step = "aborted" /\ last.step \in { "start", "links", "weather", "status" }
    \/ <<last.step, last'.step>>
            \in { <<"start", "links">>, <<"links", "weather">>, <<"weather", "status">>,
                  <<"status", "now">>, <<"now", "rendered">>,
                  <<"rendered", "start">>, <<"aborted", "start">> }

\* The step leaves every file of another source as it was.
WritesOwn == \A p \in CacheFiles \ OwnFiles(last.step) : cache'[p] = cache[p]

\* The step is the one the adapter takes in a directory that holds its own
\* files only.
ReadsOwn ==
    CASE last.step = "start" ->
            \E answers \in [1 .. Len(config.feeds) -> FeedAnswers] :
            \E r \in { fetch_links(config, Only(OwnFiles("start")), answers, clock) } :
                /\ last' = Stepped(last, "links", r, [last EXCEPT !.links_source = r.source])
                /\ \A p \in OwnFiles("start") : cache'[p] = r.files[p]
      [] last.step = "links" ->
            \E answer \in BuildWeatherAnswers :
            \E r \in { fetch_weather(config, Only(OwnFiles("links")), answer, clock) } :
                /\ last' = Stepped(last, "weather", r,
                                   [last EXCEPT !.weather_source = r.source])
                /\ \A p \in OwnFiles("links") : cache'[p] = r.files[p]
      [] last.step = "weather" ->
            \E probe \in BuildProbeAnswers, service \in ServiceAnswers :
            \E r \in { fetch_status(config, Only(OwnFiles("weather")), probe, Number(100),
                                    service, clock) } :
                /\ last' = Stepped(last, "status", r,
                                   [last EXCEPT !.status_source = r.source,
                                                !.status_bundle = r.value])
                /\ \A p \in OwnFiles("weather") : cache'[p] = r.files[p]
      [] last.step = "status" ->
            \E answer \in BuildNowAnswers :
            \E r \in { fetch_now(config, Only(OwnFiles("status")), answer, NoHistoryAnswer,
                                 clock) } :
                /\ last' = Stepped(last, "now", r,
                                   [last EXCEPT !.now_source = r.source,
                                                !.now_data = r.value,
                                                !.now_history = r.history])
                /\ \A p \in OwnFiles("status") : cache'[p] = r.files[p]
      [] OTHER -> cache' = cache

\* C30: within one build the sources are resolved one after another in the
\* order feeds, weather, status, now-playing; a resolution changes none but
\* its own cache files, and it is the resolution the adapter makes when the
\* files of the other sources are not there.
C30_SourcesApart ==
    [][adapter = "build" => InOrder /\ WritesOwn /\ ReadsOwn]_vars

\* The second build is rendered with the weather's, the status's and the
\* now-playing's files in the directory, the last one read and not written.
C30_Witness ==
    /\ Rendered
    /\ last.build = 2
    /\ \A p \in { "weather.json", "status.json", "now_source.json" } : cache[p].exists
    /\ last.weather_source = "cache"
    /\ last.now_source = <<"cache", "disabled">>

-----------------------------------------------------------------------------
(* utils.py: two builds on one cache directory.  Each build is a process   *)
(* of its own; nothing orders the file operations of one against those of  *)
(* the other, so fetch_json_with_cache is followed statement by statement.  *)

Builds == { 1, 2 }

RacePath == "weather.json"

\* The entry left by an earlier build, what the fetcher of build b returns,
\* and the fallback.
SeedDoc == Number(1)
FreshDoc(b) == Number(10 + b)
FallbackDoc == Number(0)

\* The latest instant of the two builds.
MaxRaceClock == 2

\* path.open("w") returns leaving the file as it was: the new text replaces
\* the old one at once when it is complete.
OpenForWriting_untouched(f, now) == f

\* path.open("w") (line 35): the file is there and empty until json.dump and
\* the close of the handle have written the text.
OpenForWriting(f, now) == [exists |-> TRUE, kind |-> "garbled", doc |-> None, mtime |-> now]

\* A build before its call of fetch_json_with_cache.
Waiting ==
    [pc |-> "read", cached |-> None, during_write |-> FALSE, fetched |-> Return(None),
     value |-> None, source |-> ""]

\* The state with build b moved on.
Moved(b, r) == [last EXCEPT !.builds[b] = r]

\* The build has returned (value, source).
Returned(r, value, source) == [r EXCEPT !.pc = "done", !.value = value, !.source = source]

InitRace ==
    /\ adapter = "race"
    /\ config \in { [BaseConfig EXCEPT !.weather_ttl_minutes = t] : t \in { 0, 1 } }
    /\ clock = 0
    /\ \E f \in { Absent, File(SeedDoc, 0) } :
        /\ cache = [p \in CacheFiles |-> IF p = RacePath THEN f ELSE Absent]
        /\ lastGood = [p \in CacheFiles |-> IF p = RacePath THEN f.doc ELSE None]
    /\ last = [op |-> "race", builds |-> [b \in Builds |-> Waiting]]

\* Line 67: cached = read_json(cache_path, None).
RaceRead(b) ==
    /\ last.builds[b].pc = "read"
    /\ last' = Moved(b, [last.builds[b] EXCEPT
                            !.pc = "fresh",
                            !.cached = read_json(cache[RacePath], None).value,
                            !.during_write =
                                \E o \in Builds \ {b} : last.builds[o].pc = "dump"])
    /\ UNCHANGED <<adapter, config, clock, cache, lastGood>>

\* Lines 69-70.
RaceFresh(b) ==
    /\ last.builds[b].pc = "fresh"
    /\ last' = Moved(b, IF /\ last.builds[b].cached # None
                           /\ is_cache_fresh(cache[RacePath],
                                             config.weather_ttl_minutes * MinuteSec, clock)
                        THEN Returned(last.builds[b], last.builds[b].cached, "cache")
                        ELSE [last.builds[b] EXCEPT !.pc = "fetch"])
    /\ UNCHANGED <<adapter, config, clock, cache, lastGood>>

\* Line 73 and, when the fetcher raises, lines 76-81.
RaceFetch(b) ==
    /\ last.builds[b].pc = "fetch"
    /\ \E fetched \in { Raise("Timeout"), Return(FreshDoc(b)) } :
        last' = Moved(b, IF fetched.raised = ""
                         THEN [last.builds[b] EXCEPT !.pc = "open", !.fetched = fetched]
                         ELSE IF last.builds[b].cached # None
                         THEN Returned([last.builds[b] EXCEPT !.fetched = fetched],
                                       last.builds[b].cached, "stale")
                         ELSE Returned([last.builds[b] EXCEPT !.fetched = fetched],
                                       FallbackDoc, "fallback"))
    /\ UNCHANGED <<adapter, config, clock, cache, lastGood>>

\* Line 74, write_json line 35: the file is opened for writing.
RaceOpen(b) ==
    /\ last.builds[b].pc = "open"
    /\ cache' = [cache EXCEPT ![RacePath] = OpenForWriting(@, clock)]
    /\ last' = Moved(b, [last.builds[b] EXCEPT !.pc = "dump"])
    /\ UNCHANGED <<adapter, config, clock, lastGood>>

\* write_json line 36 and the close of the handle, then line 75.
RaceDump(b) ==
    /\ last.builds[b].pc = "dump"
    /\ cache' = [cache EXCEPT ![RacePath] = write_json(last.builds[b].fetched.value, clock)]
    /\ last' = Moved(b, Returned(last.builds[b], last.builds[b].fetched.value, "live"))
    /\ UNCHANGED <<adapter, config, clock, lastGood>>

RaceTick ==
    /\ adapter = "race"
    /\ clock < MaxRaceClock
    /\ clock' = clock + 1
    /\ UNCHANGED <<adapter, config, cache, last, lastGood>>

NextRace ==
    \/ \E b \in Builds : RaceRead(b)
    \/ \E b \in Builds : RaceFresh(b)
    \/ \E b \in Builds : RaceFetch(b)
    \/ \E b \in Builds : RaceOpen(b)
    \/ \E b \in Builds : RaceDump(b)
    \/ RaceTick

SpecRace == InitRace /\ [][NextRace]_vars

\* ---- C31 ----
\* Build b has returned from fetch_json_with_cache.
RaceDone(b) == last.op = "race" /\ last.builds[b].pc = "done"

\* There was an entry before the two builds started.
Seeded == lastGood[RacePath] # None

\* C31: a build that reads the cache file after the other build has opened it
\* for writing and before the text is written finds no entry, and returns the
\* fallback when its fetch fails although an entry existed before both builds
\* started; with an entry there from the start, no build returns the fallback
\* but after such a read.
C31_RaceLosesEntry ==
    \A b \in Builds :
        RaceDone(b)
            => /\ last.builds[b].during_write
                    => /\ last.builds[b].cached = None
                       /\ last.builds[b].fetched.raised # ""
                            => last.builds[b].source = "fallback"
               /\ Seeded /\ last.builds[b].source = "fallback"
                    => last.builds[b].during_write

\* An entry existed, and a build read during the other's write and returned
\* the fallback.
C31_Witness ==
    /\ Seeded
    /\ \E b \in Builds :
        /\ RaceDone(b)
        /\ last.builds[b].during_write
        /\ last.builds[b].source = "fallback"
        /\ last.builds[b].value = FallbackDoc

\* ---- C32 ----
\* A resolution of a source whose file an earlier resolution wrote: the files
\* start absent and only a resolution that returns "live" writes one (C5).
AfterLive(c) == ViaResolve(c) /\ c.pre.exists

FailedFetch(c) == c.fetches = 1 /\ c.fetched.raised # "" /\ c.raised = ""

\* C32: once a resolution of a source has returned "live", no later resolution
\* of that source returns "fallback", and a later failure of the fetch gives
\* "stale".
C32_NoFallbackAfterLive ==
    \A c \in Calls :
        AfterLive(c)
            => /\ c.source # "fallback"
               /\ FailedFetch(c) => c.source = "stale"

\* ---- C33 ----
\* A resolution started within ttl_seconds of one that returned (p, "live"):
\* the live one left the file holding p with the time of its write (C2), and
\* nothing else has written the file since (C5).
WithinTtlOfLive(c) ==
    /\ c.pre.exists
    /\ c.pre.kind = "json"
    /\ c.ttl_seconds > 0
    /\ last.at - c.pre.mtime <= c.ttl_seconds

\* C33: a resolution of a source started within ttl_seconds > 0 of one that
\* returned (p, "live") returns (p, "cache"), does not call the fetcher and
\* leaves the content and the modification time of the cache file as they were.
C33_SecondWithinTtlIsCache ==
    \A c \in Calls :
        WithinTtlOfLive(c)
            => /\ c.raised = ""
               /\ c.value = c.pre.doc
               /\ c.source = "cache"
               /\ c.fetches = 0
               /\ c.post = c.pre

\* ---- C34 ----
\* The payload holds a playable now item under the configured mount.
Playable(payload) == _parse_source_payload(payload, CallMount).now # None

\* C34: on the source endpoint, now_source.json is written only with a fetched
\* payload that holds a playable now item under the configured mount; a
\* resolution whose payload comes from the fetch is available and has
\* provenance "live/live", never "live/none".
C34_LiveIsPlayable ==
    last.op = "fetch_now"
        => /\ last.source # <<"live", "none">> \/ SourceCalls = {}
           /\ \A c \in SourceCalls :
                /\ c.post # c.pre
                    => /\ c.fetched.raised = ""
                       /\ c.post.doc = c.fetched.value
                       /\ Playable(c.fetched.value)
                /\ c.source = "live"
                    => /\ last.raised = ""
                       /\ last.value.available
                       /\ last.value.live
                       /\ last.source = <<"live", "live">>
                       /\ cache["now_source.json"].doc = c.fetched.value

\* A live result under a configured mount, and the payload written.
C34_Witness ==
    /\ last.op = "fetch_now"
    /\ CallMount # <<>>
    /\ \E c \in SourceCalls :
        /\ c.source = "live"
        /\ c.post # c.pre
        /\ last.value.available
        /\ last.source = <<"live", "live">>

\* A fetched payload without a playable item was not written.
C34_WitnessRejected ==
    /\ last.op = "fetch_now"
    /\ \E c \in SourceCalls :
        /\ c.fetches = 1
        /\ c.fetched.raised = ""
        /\ c.fetched.value.shape = "dict"
        /\ ~Playable(c.fetched.value)
        /\ c.post = c.pre
        /\ c.source # "live"

\* ---- C35 ----
\* now_playing.cache_ttl_sec is configured as a number that is 0 or negative.
TtlNotPositive ==
    /\ config.cache_ttl_sec.shape = "number"
    /\ config.cache_ttl_sec.n <= 0

\* C35: on the source endpoint, with cache_ttl_sec configured as 0 or as a
\* negative number the cached payload is never served as fresh: every
\* resolution attempts the fetch.
C35_NoTtlNoCache ==
    last.op = "fetch_now" /\ TtlNotPositive
        => \A c \in SourceCalls :
            /\ c.fetches = 1
            /\ c.source # "cache"

\* ---- C36 ----
\* The last call of fetch_links made a fetch round in which no feed gave an
\* item: every feed raised or answered without linked entries, or no feed is
\* configured.
EmptyRound ==
    /\ last.op = "fetch_links"
    /\ \A c \in Calls : c.fetches = 1
    /\ EntryCount(Succeeded) = 0

\* C36: a fetch round of the feeds adapter in which no feed yields an item is
\* a failure of the fetch: feeds.json is left as it was, and fetch_links
\* returns the items of the cached payload with provenance "stale" when there
\* is one, else one placeholder per configured feed with provenance "fallback".
C36_EmptyRoundIsFailure ==
    EmptyRound
        => \A c \in Calls :
            /\ c.fetched.raised = "RuntimeError"
            /\ c.post = c.pre
            /\ cache["feeds.json"] = c.pre
            /\ last.raised = ""
            /\ Entry(c.pre) => last.source = "stale" /\ last.value = c.pre.doc.items
            /\ ~Entry(c.pre)
                => /\ last.source = "fallback"
                   /\ Len(last.value) = Len(config.feeds)
                   /\ \A i \in 1 .. Len(last.value) :
                        last.value[i] = [source |-> config.feeds[i], published |-> last.at]

\* ---- C37 ----
\* The last call was fetch_status in remote_ssh mode and its SSH probe failed
\* (or was not run for want of a target).
ProbeFailed == RemoteStatus /\ ~last.answers.probe.ok

ProbeSucceeded == RemoteStatus /\ last.answers.probe.ok

\* status_remote.json is as it was before the call.
RemoteUntouched == cache["status_remote.json"] = last.answers.remote_pre

\* The collector returned degraded metrics, and fetch_status resolved them as
\* "live" and wrote them to status.json.
DegradedLive(c) ==
    /\ c.fetched.raised = ""
    /\ c.fetched.value.metrics_stale
    /\ c.fetched.value.metrics_source \in { "remote_cache", "local_fallback" }
    /\ c.source = "live"
    /\ c.post = File(c.fetched.value, last.at)
    /\ cache["status.json"] = c.post
    /\ last.raised = ""
    /\ last.source = "live"
    /\ last.value.source = "live"
    /\ last.value.metrics_stale

=============================================================================
